---- MODULE Spec2Model ----
(***************************************************************************)
(* Compliance tracking of the vertical SaaS framework: the relational      *)
(* tables tenants / user_tenants / compliance_checklists /                 *)
(* tenant_compliance, the service functions of server/services/compliance  *)
(* and server/services/tenant, and the tRPC procedures that call them.     *)
(*                                                                         *)
(* A table is a sequence of rows in insertion order.  nanoid() returns a   *)
(* fresh identifier; the k-th row inserted into a table gets identifier k. *)
(* A nullable column holds None (SQL NULL) or Some(v); an optional input   *)
(* is None (undefined) or Some(v).  Timestamps count half days since the   *)
(* epoch (Day of them make a day; the server's time zone is UTC), read     *)
(* from the clock `now`.  A procedure call arrives (Call, Arrive) and is    *)
(* served a step per database statement it awaits, the statements of       *)
(* getTenantForUser included; the step of a statement is its answer and    *)
(* the code that runs on it, up to the next statement awaited.  The pure   *)
(* functions are called whole (Receive).  The reminder job of              *)
(* COMPLIANCE.md runs in dispatcher processes, each a step at a time.      *)
(***************************************************************************)
EXTENDS Integers, Sequences, FiniteSets, TLC

\* ------------------------------------------------------------------ bounds
MaxRecords == 4     \* rows of tenant_compliance
MaxTime == 2        \* steps of the clock
MaxReminders == 2   \* rows of compliance_reminders before a call adds to them
MaxMails == 2       \* calls of sendEmail
MaxItems == 40      \* items of a template drawn for the statistics

\* ------------------------------------------------------------------ values
None == <<>>
Some(v) == <<v>>
ValueOf(o) == o[1]

Users == {"U1", "U2"}
Statuses == {"not_started", "in_progress", "completed", "skipped"}
\* the optional notes / attachments of an updateStatus call
PatchInputs ==
    { [notes |-> None,       attachments |-> None],
      [notes |-> Some("n1"), attachments |-> None],
      [notes |-> None,       attachments |-> Some(<<"f1">>)],
      [notes |-> Some("n2"), attachments |-> Some(<<"f1">>)] }

\* timestamps per day: the clock counts half days
Day == 2

\* days from 1970-01-01 to the civil date y-m-d (m in 1..12), and the civil
\* date <<y, m, d>> of a day number: the proleptic Gregorian calendar that
\* Date uses
DaysFromCivil(y, m, d) ==
    LET yy == IF m <= 2 THEN y - 1 ELSE y
        era == yy \div 400
        yoe == yy - era * 400
        doy == (153 * (IF m > 2 THEN m - 3 ELSE m + 9) + 2) \div 5 + d - 1
        doe == yoe * 365 + yoe \div 4 - yoe \div 100 + doy
    IN  era * 146097 + doe - 719468
CivilFromDays(days) ==
    LET z == days + 719468
        era == z \div 146097
        doe == z - era * 146097
        yoe == (doe - doe \div 1460 + doe \div 36524 - doe \div 146096) \div 365
        doy == doe - (365 * yoe + yoe \div 4 - yoe \div 100)
        mp == (5 * doy + 2) \div 153
        d == doy - (153 * mp + 2) \div 5 + 1
        m == IF mp < 10 THEN mp + 3 ELSE mp - 9
        y == yoe + era * 400 + (IF m <= 2 THEN 1 ELSE 0)
    IN  <<y, m, d>>

\* new Date(year, monthIndex, day): midnight of that date (monthIndex from 0)
MakeDate(year, monthIndex, day) == DaysFromCivil(year, monthIndex + 1, day) * Day
\* Date.prototype.getFullYear
getFullYear(t) == CivilFromDays(t \div Day)[1]

\* new Date(s) for the ISO strings the templates use: midnight UTC for a date
NewDate(s) ==
    CASE s = "1970-01-02" -> MakeDate(1970, 0, 2)
      [] s = "1970-01-03" -> MakeDate(1970, 0, 3)
      [] s = "1970-01-01T12:00:00Z" -> MakeDate(1970, 0, 1) + Day \div 2
      [] s = "1970-01-02T12:00:00Z" -> MakeDate(1970, 0, 2) + Day \div 2

\* Template definitions handed to upsertComplianceChecklist (its `sections`).
\* An item's dueDate is None when the optional property is absent.
Item(id, frequency, dueDate) == [id |-> id, frequency |-> frequency, dueDate |-> dueDate]
TplA ==
    << [id |-> "s1", items |-> << Item("a1", "once", Some("1970-01-02")) >>],
       [id |-> "s2", items |-> << Item("a2", "quarterly", None) >>] >>
TplEmpty ==
    << [id |-> "s1", items |-> << >>] >>
TemplateDefs == {TplA, TplEmpty}
\* a template whose deadlines fall on either side of one another's days
TplD ==
    << [id |-> "s1", items |-> << Item("d1", "once", Some("1970-01-02")),
                                  Item("d2", "once", Some("1970-01-01T12:00:00Z")) >>],
       [id |-> "s2", items |-> << Item("d3", "annually", Some("1970-01-02T12:00:00Z")),
                                  Item("d4", "quarterly", None),
                                  Item("d5", "once", Some("1970-01-01T12:00:00Z")) >>] >>

\* ------------------------------------------------------------------- state
VARIABLES
    tenants,        \* table tenants
    userTenants,    \* table user_tenants
    tenantModules,  \* table tenant_modules
    checklists,     \* table compliance_checklists
    tracking,       \* table tenant_compliance
    reminders,      \* table compliance_reminders
    now,            \* the clock read by new Date()
    request,        \* the call of a procedure of one statement being served: None when idle
    response,       \* what the last call to return sent back or threw: None once a
                    \* later call has arrived
    dispatchers,    \* the reminder job in each dispatcher process
    mails,          \* the reminders handed to sendEmail, in order
    handlers        \* the procedure calls served concurrently, one per client, a step per await

vars == <<tenants, userTenants, tenantModules, checklists, tracking, reminders, now,
          request, response, dispatchers, mails, handlers>>

\* the clients whose calls are served concurrently, and a client with no call
Clients == {"c1", "c2"}
Waiting == [pc |-> "idle"]
NoHandlers == [c \in Clients |-> Waiting]

\* ----------------------------------------------------------------- helpers
RECURSIVE Concat(_)
Concat(ss) == IF ss = <<>> THEN <<>> ELSE Head(ss) \o Concat(Tail(ss))

Ok(op) == Some([op |-> op, error |-> None])

\* an object assembled from parts, a later part overriding an earlier one
Assign(parts) ==
    LET keys == UNION {DOMAIN parts[i] : i \in DOMAIN parts}
        Last(k) == CHOOSE j \in DOMAIN parts :
                       /\ k \in DOMAIN parts[j]
                       /\ \A m \in DOMAIN parts : k \in DOMAIN parts[m] => m <= j
    IN  [k \in keys |-> parts[Last(k)][k]]
Threw(op, msg) == Some([op |-> op, error |-> Some(msg)])

\* ---------------------------------------------------------- tenant service
\* canAccessModule: the modules a subscription tier may use
TierModules(tier) ==
    CASE tier = "free" -> <<"crm", "scheduling", "invoicing", "website_builder">>
      [] tier = "starter" ->
            <<"crm", "scheduling", "invoicing", "website_builder", "ai_assistant", "marketing">>
      [] tier = "professional" ->
            <<"crm", "scheduling", "invoicing", "website_builder", "ai_assistant", "marketing",
              "analytics", "project_management", "email_campaigns">>
      [] tier = "enterprise" ->
            <<"crm", "scheduling", "invoicing", "website_builder", "ai_assistant", "marketing",
              "analytics", "project_management", "email_campaigns", "file_storage">>
canAccessModule(tier, moduleType) ==
    \E i \in DOMAIN TierModules(tier) : TierModules(tier)[i] = moduleType

\* Array.from(new Set([...xs, ...ys])): xs then the ys not met before
RECURSIVE AddAll(_, _)
AddAll(xs, ys) ==
    IF ys = <<>> THEN xs
    ELSE AddAll(IF \E i \in DOMAIN xs : xs[i] = Head(ys) THEN xs ELSE Append(xs, Head(ys)),
                Tail(ys))

\* getDefaultModules: the tier's modules and the business type's additions
\* that the tier allows
getDefaultModules(businessType, tier) ==
    LET freeModules == <<"crm", "scheduling", "invoicing">>
        tierModules ==
            CASE tier = "free" -> freeModules
              [] tier = "starter" -> freeModules \o <<"ai_assistant", "marketing">>
              [] tier = "professional" ->
                    freeModules \o <<"ai_assistant", "marketing", "analytics", "email_campaigns">>
              [] tier = "enterprise" ->
                    freeModules \o <<"ai_assistant", "marketing", "analytics", "email_campaigns",
                                     "project_management", "file_storage">>
        businessSpecific ==
            CASE businessType = "photographer" -> <<"file_storage", "website_builder">>
              [] businessType = "musician" -> <<"website_builder", "marketing">>
              [] businessType = "artist" -> <<"website_builder", "file_storage">>
              [] businessType = "content_creator" -> <<"analytics", "marketing">>
              [] businessType = "real_estate_agent" -> <<"crm", "analytics">>
              [] OTHER -> <<>>
    IN  AddAll(AddAll(<<>>, tierModules),
               SelectSeq(businessSpecific, LAMBDA m: canAccessModule(tier, m)))

\* days of trial granted by createTenant
TrialDays == 14

\* A name or a slug is the sequence of its characters.  toLowerCase on the
\* letters the names are written with, and the characters [a-z0-9] among them
toLowerCase(ch) ==
    CASE ch = "A" -> "a"
      [] ch = "B" -> "b"
      [] ch = "C" -> "c"
      [] OTHER -> ch
LowerAlnum == {"a", "b", "c", "0", "1"}

\* replace(/[^a-z0-9]+/g, '-'): every run of other characters becomes one dash
RECURSIVE DashRuns(_)
DashRuns(s) ==
    IF s = <<>> THEN <<>>
    ELSE IF Head(s) \in LowerAlnum THEN <<Head(s)>> \o DashRuns(Tail(s))
    ELSE IF Len(s) > 1 /\ s[2] \notin LowerAlnum THEN DashRuns(Tail(s))
    ELSE <<"-">> \o DashRuns(Tail(s))

\* replace(/^-|-$/g, ''): a dash at the start and a dash at the end are dropped
TrimDashes(s) ==
    LET first == IF s # <<>> /\ Head(s) = "-" THEN Tail(s) ELSE s
    IN  IF first # <<>> /\ first[Len(first)] = "-"
        THEN SubSeq(first, 1, Len(first) - 1)
        ELSE first

\* generateSlug: lower case, dashes for what is not a letter or a digit, at
\* most 100 characters
generateSlug(name) ==
    LET lower == [k \in DOMAIN name |-> toLowerCase(name[k])]
        trimmed == TrimDashes(DashRuns(lower))
    IN  SubSeq(trimmed, 1, IF Len(trimmed) < 100 THEN Len(trimmed) ELSE 100)

\* createTenant at time t: insert the tenant row, the owner's user_tenants
\* row and one enabled tenant_modules row per default module.  input.
\* subscriptionTier is None when omitted.  tenants.slug is UNIQUE: when a
\* tenant has the slug already, the first INSERT fails, createTenant throws
\* and no table has changed.
createTenant(db, input, t) ==
    LET tenantId == Len(db.tenants) + 1
        tier == IF input.subscriptionTier # None THEN ValueOf(input.subscriptionTier) ELSE "free"
        defaultModules == getDefaultModules(input.businessType, tier)
        moduleRecords ==
            [k \in 1..Len(defaultModules) |->
                [id |-> Len(db.tenantModules) + k, tenantId |-> tenantId,
                 moduleType |-> defaultModules[k], enabled |-> TRUE]]
    IN  IF \E i \in DOMAIN db.tenants : db.tenants[i].slug = input.slug
        THEN [ error |-> Some("ER_DUP_ENTRY"),
               tenants |-> db.tenants,
               userTenants |-> db.userTenants,
               tenantModules |-> db.tenantModules ]
        ELSE
        [ error |-> None,
          tenants |-> Append(db.tenants,
              [id |-> tenantId, name |-> input.name, slug |-> input.slug,
               ownerId |-> input.ownerId,
               businessType |-> input.businessType,
               subscriptionTier |-> tier, subscriptionStatus |-> "trial",
               trialEndsAt |-> t + TrialDays * Day]),
          userTenants |-> Append(db.userTenants,
              [id |-> Len(db.userTenants) + 1, userId |-> input.ownerId,
               tenantId |-> tenantId, role |-> "owner"]),
          tenantModules |-> IF Len(moduleRecords) > 0
                            THEN db.tenantModules \o moduleRecords
                            ELSE db.tenantModules ]

\* .limit(1): the first row of a result, if any
Limit1(rows) == SubSeq(rows, 1, IF Len(rows) < 1 THEN Len(rows) ELSE 1)

\* the three statements of getTenantForUser, each answered by the tables as
\* they are when it runs: the tenant, the user's row for it, and its enabled
\* modules
tenantResult(tenantId) ==
    Limit1(SelectSeq(tenants, LAMBDA t: t.id = tenantId))
userTenantResult(userId, tenantId) ==
    Limit1(SelectSeq(userTenants, LAMBDA ut: ut.userId = userId /\ ut.tenantId = tenantId))
modulesResult(tenantId) ==
    SelectSeq(tenantModules, LAMBDA m: m.tenantId = tenantId /\ m.enabled)

\* ------------------------------------------------------ compliance service
\* upsertComplianceChecklist: plain insert under a fresh id of the data as
\* given; data.isActive is None when omitted, and the column then takes its
\* default, true
upsertComplianceChecklist(table, data) ==
    Append(table, [id |-> Len(table) + 1, sections |-> data.sections,
                   isActive |-> IF data.isActive # None THEN ValueOf(data.isActive)
                                ELSE TRUE])

\* (mutant) the outer loop stops after the first section
ItemsOfFirstSection(sections) ==
    IF Len(sections) = 0 THEN <<>> ELSE sections[1].items

\* the nested loops of initializeTenantCompliance visit every item of every
\* section, in order
ItemsOf(sections) == Concat([i \in 1..Len(sections) |-> sections[i].items])

\* the record initializeTenantCompliance builds for one item at time t; its
\* id is known here by the row's place in the table, once inserted
NewRecord(tenantId, checklistId, item, t) ==
    [ tenantId |-> tenantId,
      checklistId |-> checklistId,
      itemId |-> item.id,
      status |-> "not_started",
      notes |-> None,
      attachments |-> None,
      completedAt |-> None,
      completedBy |-> None,
      nextDueDate |-> IF item.dueDate # None /\ ValueOf(item.dueDate) # ""
                      THEN Some(NewDate(ValueOf(item.dueDate)))
                      ELSE None,
      reminderSent |-> FALSE,
      createdAt |-> t,
      updatedAt |-> t ]

\* the records built at time t for a checklist's sections
ComplianceRecords(tenantId, checklistId, sections, t) ==
    LET items == ItemsOf(sections) IN
    [k \in 1..Len(items) |-> NewRecord(tenantId, checklistId, items[k], t)]

\* db.insert(tenantCompliance).values(complianceRecords): one statement
\* inserts all the records
InsertRecords(table, complianceRecords) ==
    table \o [k \in 1..Len(complianceRecords) |->
                 Assign(<<complianceRecords[k], [id |-> Len(table) + k]>>)]

\* (mutant) a missing checklist is passed over in silence
initializeIgnoringMissing(db, tenantId, checklistId, t) ==
    LET checklist == SelectSeq(db.checklists, LAMBDA c: c.id = checklistId) IN
    IF Len(checklist) = 0
    THEN [error |-> None, complianceRecords |-> <<>>]
    ELSE [error |-> None,
          complianceRecords |->
              ComplianceRecords(tenantId, checklistId, checklist[1].sections, t)]

\* (mutant) a tenant that already tracks the checklist is left as it is
initializeOnce(db, tenantId, checklistId, t) ==
    LET checklist == SelectSeq(db.checklists, LAMBDA c: c.id = checklistId)
        existing == SelectSeq(db.tracking,
            LAMBDA r: r.tenantId = tenantId /\ r.checklistId = checklistId)
    IN  IF Len(checklist) = 0
        THEN [error |-> Some("Checklist not found"), complianceRecords |-> <<>>]
        ELSE IF Len(existing) > 0
        THEN [error |-> None, complianceRecords |-> <<>>]
        ELSE [error |-> None,
              complianceRecords |->
                  ComplianceRecords(tenantId, checklistId, checklist[1].sections, t)]

\* initializeTenantCompliance up to its INSERT, the checklist read from the
\* given tables and the clock read at time t: throws when the checklist is
\* missing, else builds one record per item.  The records are inserted, when
\* there are any, by the statement the function then awaits (InsertRecords).
initializeTenantCompliance(db, tenantId, checklistId, t) ==
    LET checklist == SelectSeq(db.checklists, LAMBDA c: c.id = checklistId) IN
    IF Len(checklist) = 0
    THEN [error |-> Some("Checklist not found"), complianceRecords |-> <<>>]
    ELSE [error |-> None,
          complianceRecords |->
              ComplianceRecords(tenantId, checklistId, checklist[1].sections, t)]

\* Identifiers are strings in the program and, in the tables here, the
\* numbers 1, 2, ... in order of insertion; 0 stands for the empty string,
\* which a caller may pass and which is no row's id.
EmptyString == 0

\* getTenantComplianceStatus: the tenant's rows, of one checklist when
\* `if (checklistId)` holds: when one is given and is not the empty string
getTenantComplianceStatus(tenantId, checklistId) ==
    SelectSeq(tracking, LAMBDA r:
        /\ r.tenantId = tenantId
        /\ (checklistId # None /\ ValueOf(checklistId) # EmptyString
              => r.checklistId = ValueOf(checklistId)))

\* Math.round((p / q) * 100) for 0 <= p <= q, q > 0, in double arithmetic.
\* Math.round takes a half up; but p / q is rounded to a double before it is
\* multiplied, and of the products that are exactly an integer and a half
\* (200 p / q odd) those for 29/200, 57/200, 113/200 and 115/200 come out
\* just below the half: 57.49999999999999 for 23 / 40.  Every other quotient
\* gives the nearest integer of the exact product.
TiesBelowHalf == {29, 57, 113, 115}
RoundPercent(p, q) ==
    IF (200 * p) % q = 0 /\ (200 * p) \div q \in TiesBelowHalf
    THEN ((200 * p) \div q - 1) \div 2
    ELSE (200 * p + q) \div (2 * q)

\* (mutant) notStarted taken as what is left of the total
getStatsWithRemainder(tenantId, checklistId) ==
    LET items == getTenantComplianceStatus(tenantId, checklistId)
        Count(Test(_)) == Len(SelectSeq(items, Test))
        total == Len(items)
        completed == Count(LAMBDA i: i.status = "completed")
        inProgress == Count(LAMBDA i: i.status = "in_progress")
    IN  [ total |-> total,
          completed |-> completed,
          inProgress |-> inProgress,
          notStarted |-> total - completed - inProgress,
          overdue |-> Count(LAMBDA i:
              /\ i.nextDueDate # None
              /\ ValueOf(i.nextDueDate) < now
              /\ i.status # "completed"
              /\ i.status # "skipped"),
          completionRate |-> IF total > 0 THEN RoundPercent(completed, total) ELSE 0 ]

\* (mutant) a row due at the current time counts as overdue
getStatsOverdueFromNow(tenantId, checklistId) ==
    LET items == getTenantComplianceStatus(tenantId, checklistId)
        Count(Test(_)) == Len(SelectSeq(items, Test))
        total == Len(items)
        completed == Count(LAMBDA i: i.status = "completed")
    IN  [ total |-> total,
          completed |-> completed,
          inProgress |-> Count(LAMBDA i: i.status = "in_progress"),
          notStarted |-> Count(LAMBDA i: i.status = "not_started"),
          overdue |-> Count(LAMBDA i:
              /\ i.nextDueDate # None
              /\ ValueOf(i.nextDueDate) <= now
              /\ i.status # "completed"
              /\ i.status # "skipped"),
          completionRate |-> IF total > 0 THEN RoundPercent(completed, total) ELSE 0 ]

\* getComplianceStats: counts over getTenantComplianceStatus at the current time
getComplianceStats(tenantId, checklistId) ==
    LET items == getTenantComplianceStatus(tenantId, checklistId)
        Count(Test(_)) == Len(SelectSeq(items, Test))
        total == Len(items)
        completed == Count(LAMBDA i: i.status = "completed")
    IN  [ total |-> total,
          completed |-> completed,
          inProgress |-> Count(LAMBDA i: i.status = "in_progress"),
          notStarted |-> Count(LAMBDA i: i.status = "not_started"),
          overdue |-> Count(LAMBDA i:
              /\ i.nextDueDate # None
              /\ ValueOf(i.nextDueDate) < now
              /\ i.status # "completed"
              /\ i.status # "skipped"),
          completionRate |-> IF total > 0 THEN RoundPercent(completed, total) ELSE 0 ]

\* Math.ceil(p / q) for q > 0
Ceil(p, q) == -((-p) \div q)

\* Array.prototype.sort with the comparator a.daysUntilDue - b.daysUntilDue:
\* stable, so entries that compare equal keep their order
RECURSIVE SortByDaysUntilDue(_)
SortByDaysUntilDue(xs) ==
    IF xs = <<>> THEN <<>>
    ELSE LET rest == SortByDaysUntilDue(Tail(xs))
             x == Head(xs)
             before == SelectSeq(rest, LAMBDA y: y.daysUntilDue - x.daysUntilDue < 0)
             after == SelectSeq(rest, LAMBDA y: ~(y.daysUntilDue - x.daysUntilDue < 0))
         IN  before \o <<x>> \o after

\* (mutant) the window ends before now + daysAhead days
getUpcomingDeadlinesOpenWindow(tenantId, daysAhead) ==
    LET items == getTenantComplianceStatus(tenantId, None)
        futureDate == now + daysAhead * Day
        kept == SelectSeq(items, LAMBDA item:
                    /\ item.nextDueDate # None
                    /\ ValueOf(item.nextDueDate) >= now
                    /\ ValueOf(item.nextDueDate) < futureDate
                    /\ item.status # "completed"
                    /\ item.status # "skipped")
    IN  SortByDaysUntilDue(
            [k \in 1..Len(kept) |->
                [compliance |-> kept[k],
                 daysUntilDue |-> Ceil(ValueOf(kept[k].nextDueDate) - now, Day)]])

\* (mutant) the days until due are rounded down
getUpcomingDeadlinesFloor(tenantId, daysAhead) ==
    LET items == getTenantComplianceStatus(tenantId, None)
        futureDate == now + daysAhead * Day
        kept == SelectSeq(items, LAMBDA item:
                    /\ item.nextDueDate # None
                    /\ ValueOf(item.nextDueDate) >= now
                    /\ ValueOf(item.nextDueDate) <= futureDate
                    /\ item.status # "completed"
                    /\ item.status # "skipped")
    IN  SortByDaysUntilDue(
            [k \in 1..Len(kept) |->
                [compliance |-> kept[k],
                 daysUntilDue |-> (ValueOf(kept[k].nextDueDate) - now) \div Day]])

\* getUpcomingDeadlines at the current time, daysAhead a whole number of days
getUpcomingDeadlines(tenantId, daysAhead) ==
    LET items == getTenantComplianceStatus(tenantId, None)
        futureDate == now + daysAhead * Day
        kept == SelectSeq(items, LAMBDA item:
                    /\ item.nextDueDate # None
                    /\ ValueOf(item.nextDueDate) >= now
                    /\ ValueOf(item.nextDueDate) <= futureDate
                    /\ item.status # "completed"
                    /\ item.status # "skipped")
    IN  SortByDaysUntilDue(
            [k \in 1..Len(kept) |->
                [compliance |-> kept[k],
                 daysUntilDue |-> Ceil(ValueOf(kept[k].nextDueDate) - now, Day)]])

\* (mutant) completion is not stamped
UpdateDataUnstamped(status, userId, notes, attachments, t) ==
    Assign(<< [status |-> status, updatedAt |-> t],
              IF notes # None THEN [notes |-> notes] ELSE <<>>,
              IF attachments # None THEN [attachments |-> attachments] ELSE <<>> >>)

\* (mutant) omitted notes and attachments are written as null
UpdateDataNullingOmitted(status, userId, notes, attachments, t) ==
    Assign(<< [status |-> status, updatedAt |-> t],
              IF status = "completed"
              THEN [completedAt |-> Some(t), completedBy |-> Some(userId)]
              ELSE <<>>,
              [notes |-> notes, attachments |-> attachments] >>)

\* (mutant) a status other than completed clears the completion stamps
UpdateDataClearingCompletion(status, userId, notes, attachments, t) ==
    Assign(<< [status |-> status, updatedAt |-> t],
              IF status = "completed"
              THEN [completedAt |-> Some(t), completedBy |-> Some(userId)]
              ELSE [completedAt |-> None, completedBy |-> None],
              IF notes # None THEN [notes |-> notes] ELSE <<>>,
              IF attachments # None THEN [attachments |-> attachments] ELSE <<>> >>)

\* the updateData object built by updateComplianceStatus: a partial row
UpdateData(status, userId, notes, attachments, t) ==
    Assign(<< [status |-> status, updatedAt |-> t],
              IF status = "completed"
              THEN [completedAt |-> Some(t), completedBy |-> Some(userId)]
              ELSE <<>>,
              IF notes # None THEN [notes |-> notes] ELSE <<>>,
              IF attachments # None THEN [attachments |-> attachments] ELSE <<>> >>)

\* UPDATE table SET data WHERE id = id
SetWhereId(table, id, data) ==
    [i \in 1..Len(table) |->
        IF table[i].id = id
        THEN [k \in DOMAIN table[i] |-> IF k \in DOMAIN data THEN data[k] ELSE table[i][k]]
        ELSE table[i]]

\* (mutant) a completed row cannot be reopened
updateForwardOnly(complianceId, status, userId, notes, attachments, t) ==
    LET rows == SelectSeq(tracking, LAMBDA r: r.id = complianceId) IN
    IF Len(rows) > 0 /\ rows[1].status = "completed" /\ status # "completed"
    THEN [complianceId |-> complianceId, updateData |-> <<>>]
    ELSE [complianceId |-> complianceId,
          updateData |-> UpdateData(status, userId, notes, attachments, t)]

\* updateComplianceStatus up to its UPDATE, the clock read at time t: the
\* statement it then awaits, UPDATE tenant_compliance SET updateData WHERE
\* id = complianceId.  It never throws and matches the row by id alone.
updateComplianceStatus(complianceId, status, userId, notes, attachments, t) ==
    [complianceId |-> complianceId,
     updateData |-> UpdateData(status, userId, notes, attachments, t)]

\* -------------------------------------------------------- reminder service
\* scheduleReminder up to its INSERT, the clock read at time t: the row it
\* has built, unsent, which the INSERT it then awaits adds to the table.
\* metadata is None when omitted.  The row's id is known here by its place
\* in the table, once inserted.
scheduleReminder(tenantId, complianceId, reminderType, scheduledFor, message, metadata, t) ==
    [ tenantId |-> tenantId,
      complianceId |-> complianceId,
      reminderType |-> reminderType,
      scheduledFor |-> scheduledFor,
      message |-> message,
      metadata |-> IF metadata # None THEN ValueOf(metadata) ELSE <<>>,
      sent |-> FALSE,
      sentAt |-> None,
      createdAt |-> t ]

\* db.insert(complianceReminders).values(values)
InsertReminder(table, values) ==
    Append(table, Assign(<<values, [id |-> Len(table) + 1]>>))

\* (mutant) a reminder scheduled for the current time counts as due
getPendingRemindersDueNow(t) ==
    SelectSeq(reminders, LAMBDA r: r.sent = FALSE /\ r.scheduledFor <= t)

\* (mutant) a reminder that a dispatcher holds is claimed: no other gets it
getPendingRemindersUnclaimed(t) ==
    SelectSeq(reminders, LAMBDA r:
        /\ r.sent = FALSE
        /\ r.scheduledFor < t
        /\ \A d \in DOMAIN dispatchers :
             \A k \in DOMAIN dispatchers[d].batch : dispatchers[d].batch[k].id # r.id)

\* (mutant) only the reminders that fell due since the last step of the clock
getPendingRemindersLastTick(t) ==
    SelectSeq(reminders, LAMBDA r:
        r.sent = FALSE /\ r.scheduledFor < t /\ r.scheduledFor >= t - 1)

\* getPendingReminders, the clock read at time t (the local `now`) before the
\* SELECT it awaits: what the SELECT answers when it runs, the reminders of
\* all tenants that are unsent then and scheduled before t
getPendingReminders(t) ==
    SelectSeq(reminders, LAMBDA r: r.sent = FALSE /\ r.scheduledFor < t)

\* (mutant) the flag is set and the time of sending is not stamped
markReminderSentUnstamped(reminderId, t) ==
    [reminderId |-> reminderId, set |-> [sent |-> TRUE]]

\* markReminderSent up to its UPDATE, the clock read at time t: the statement
\* it then awaits, UPDATE compliance_reminders SET sent, sentAt WHERE id
markReminderSent(reminderId, t) ==
    [reminderId |-> reminderId, set |-> [sent |-> TRUE, sentAt |-> Some(t)]]

\* Date.prototype.toLocaleDateString and toISOString of a midnight, by the
\* numbers they print: month/day/year, and year-month-day
toLocaleDateString(t) ==
    LET c == CivilFromDays(t \div Day) IN <<c[2], c[3], c[1]>>
toISOString(t) == CivilFromDays(t \div Day)

\* the calls of scheduleReminder the loop makes, one after the other, for
\* the quarters that pass its test
ScheduleQuarters(quarters, tenantId, complianceId) ==
    [k \in DOMAIN quarters |->
        LET quarter == quarters[k]
            reminderDate == quarter.date - 7 * Day
        IN  [tenantId |-> tenantId, complianceId |-> complianceId,
             reminderType |-> "email", scheduledFor |-> reminderDate,
             message |-> <<"Reminder: ", quarter.name, " estimated taxes are due on ",
                           toLocaleDateString(quarter.date)>>,
             metadata |-> Some([quarter |-> quarter.name,
                                dueDate |-> toISOString(quarter.date)])]]

\* the four deadlines of scheduleQuarterlyTaxReminders for a year
Quarters(currentYear) ==
    << [date |-> MakeDate(currentYear, 3, 15), name |-> "Q1"],
       [date |-> MakeDate(currentYear, 5, 15), name |-> "Q2"],
       [date |-> MakeDate(currentYear, 8, 15), name |-> "Q3"],
       [date |-> MakeDate(currentYear + 1, 0, 15), name |-> "Q4"] >>

\* (mutant) a deadline that falls on the current time is still scheduled
scheduleQuarterlyFromNow(tenantId, complianceId, t) ==
    ScheduleQuarters(
        SelectSeq(Quarters(getFullYear(t)), LAMBDA quarter: quarter.date >= t),
        tenantId, complianceId)

\* scheduleQuarterlyTaxReminders, the clock read at time t: the calls of
\* scheduleReminder it makes and awaits in turn, one for a reminder seven
\* days before each of the year's deadlines that is later than t
scheduleQuarterlyTaxReminders(tenantId, complianceId, t) ==
    ScheduleQuarters(
        SelectSeq(Quarters(getFullYear(t)), LAMBDA quarter: quarter.date > t),
        tenantId, complianceId)

\* ------------------------------------------------------------ reminder job
\* the processes that run processReminders, and one that is not running it
Dispatchers == {"D1", "D2"}
Idle == [pc |-> "idle", batch |-> <<>>]

\* processReminders in dispatcher d, a step per await.  pc is "idle" when the
\* job is not running, "poll" while the SELECT of getPendingReminders is
\* awaited, "loop" at the head of the for loop over what is left of the
\* polled reminders (batch), "mark" while the UPDATE of markReminderSent is
\* awaited.
\* the job starts: getPendingReminders reads the clock (its local `now`),
\* and awaits its SELECT
start(d) ==
    /\ dispatchers[d].pc = "idle"
    /\ dispatchers' = [dispatchers EXCEPT ![d] = [pc |-> "poll", batch |-> <<>>, now |-> now]]
    /\ UNCHANGED <<tenants, userTenants, tenantModules, checklists, tracking, reminders, now,
                   request, response, mails, handlers>>

\* the SELECT is answered: const reminders = await getPendingReminders()
poll(d) ==
    /\ dispatchers[d].pc = "poll"
    /\ dispatchers' = [dispatchers EXCEPT ![d] =
          [pc |-> "loop", batch |-> getPendingReminders(dispatchers[d].now)]]
    /\ UNCHANGED <<tenants, userTenants, tenantModules, checklists, tracking, reminders, now,
                   request, response, mails, handlers>>

\* (mutant) the reminder is marked sent in the step that sends it
sendMarking(d) ==
    /\ dispatchers[d].pc = "loop"
    /\ dispatchers[d].batch # <<>>
    /\ Len(mails) < MaxMails
    /\ mails' = Append(mails, [reminder |-> Head(dispatchers[d].batch).id,
                               body |-> Head(dispatchers[d].batch).message])
    /\ reminders' = SetWhereId(reminders, Head(dispatchers[d].batch).id,
                               [sent |-> TRUE, sentAt |-> Some(now)])
    /\ dispatchers' = [dispatchers EXCEPT ![d] =
          [pc |-> "mark", batch |-> dispatchers[d].batch,
           update |-> markReminderSent(Head(dispatchers[d].batch).id, now)]]
    /\ UNCHANGED <<tenants, userTenants, tenantModules, checklists, tracking, now,
                   request, response, handlers>>

\* await sendEmail(...) for a reminder of type email, delivered; then
\* markReminderSent builds its UPDATE with sentAt = new Date(), and awaits it
send(d) ==
    /\ dispatchers[d].pc = "loop"
    /\ dispatchers[d].batch # <<>>
    /\ LET reminder == Head(dispatchers[d].batch) IN
       IF reminder.reminderType = "email"
       THEN /\ Len(mails) < MaxMails
            /\ mails' = Append(mails, [reminder |-> reminder.id, body |-> reminder.message])
       ELSE UNCHANGED mails
    /\ dispatchers' = [dispatchers EXCEPT ![d] =
          [pc |-> "mark", batch |-> dispatchers[d].batch,
           update |-> markReminderSent(Head(dispatchers[d].batch).id, now)]]
    /\ UNCHANGED <<tenants, userTenants, tenantModules, checklists, tracking, reminders, now,
                   request, response, handlers>>

\* sendEmail throws: the catch logs the error and the loop goes on to the next
\* reminder, this one left unsent
sendFails(d) ==
    /\ dispatchers[d].pc = "loop"
    /\ dispatchers[d].batch # <<>>
    /\ Head(dispatchers[d].batch).reminderType = "email"
    /\ dispatchers' = [dispatchers EXCEPT ![d].batch = Tail(@)]
    /\ UNCHANGED <<tenants, userTenants, tenantModules, checklists, tracking, reminders, now,
                   request, response, mails, handlers>>

\* the UPDATE of markReminderSent lands, as it was built; then on to the
\* next reminder
mark(d) ==
    /\ dispatchers[d].pc = "mark"
    /\ reminders' = SetWhereId(reminders, dispatchers[d].update.reminderId,
                               dispatchers[d].update.set)
    /\ dispatchers' = [dispatchers EXCEPT ![d] =
          [pc |-> "loop", batch |-> Tail(dispatchers[d].batch)]]
    /\ UNCHANGED <<tenants, userTenants, tenantModules, checklists, tracking, now,
                   request, response, mails, handlers>>

\* the UPDATE fails and markReminderSent throws: the catch logs the error and
\* the loop goes on to the next reminder, this one delivered and left unsent
markFails(d) ==
    /\ dispatchers[d].pc = "mark"
    /\ dispatchers' = [dispatchers EXCEPT ![d] =
          [pc |-> "loop", batch |-> Tail(dispatchers[d].batch)]]
    /\ UNCHANGED <<tenants, userTenants, tenantModules, checklists, tracking, reminders, now,
                   request, response, mails, handlers>>

\* the loop has run out of reminders: processReminders returns
finish(d) ==
    /\ dispatchers[d].pc = "loop"
    /\ dispatchers[d].batch = <<>>
    /\ dispatchers' = [dispatchers EXCEPT ![d] = Idle]
    /\ UNCHANGED <<tenants, userTenants, tenantModules, checklists, tracking, reminders, now,
                   request, response, mails, handlers>>

\* the dispatcher process dies where it stands; the next run starts afresh
crash(d) ==
    /\ dispatchers[d].pc # "idle"
    /\ dispatchers' = [dispatchers EXCEPT ![d] = Idle]
    /\ UNCHANGED <<tenants, userTenants, tenantModules, checklists, tracking, reminders, now,
                   request, response, mails, handlers>>

\* ------------------------------------------------------------- procedures
\* Inputs of the procedures.  The tenant ids are those of the two tenants (a
\* caller is refused for the tenant it has no role in); checklist ids range
\* one past what the table holds, and the record ids are those of the first
\* record, of a record a later call of initialize inserts, and one past what
\* the table can hold, so that an id matching no row is always among them.
TenantIds == 1..2
ChecklistIds == 1..2
ComplianceIds == {1, MaxRecords - 1, MaxRecords + 1}

InitializeRequests ==
    [op : {"initialize"}, user : Users, tenantId : TenantIds, checklistId : ChecklistIds]
\* every update by the owner of the tenant named, and by the other user,
\* who is refused whatever the update, the completion of each record
UpdateStatusRequests ==
    {req \in
        {[op |-> "updateStatus", user |-> u, tenantId |-> x, complianceId |-> id,
          status |-> st, notes |-> p.notes, attachments |-> p.attachments] :
            u \in Users, x \in TenantIds, id \in ComplianceIds, st \in Statuses,
            p \in PatchInputs} :
        \/ req.user = "U1" /\ req.tenantId = 1
        \/ req.user = "U2" /\ req.tenantId = 2
        \/ req.status = "completed" /\ req.notes = None /\ req.attachments = None}

\* rows the call would add to tenant_compliance (the table holds MaxRecords)
Growth(req) ==
    IF req.op = "initialize"
    THEN LET checklist == SelectSeq(checklists, LAMBDA c: c.id = req.checklistId) IN
         IF Len(checklist) = 0 THEN 0 ELSE Len(ItemsOf(checklist[1].sections))
    ELSE 0

\* rows the calls in flight may still add
RECURSIVE GrowthInFlight(_)
GrowthInFlight(cs) ==
    IF cs = {} THEN 0
    ELSE LET c == CHOOSE x \in cs : TRUE IN
         (IF handlers[c] # Waiting THEN Growth(handlers[c].input) ELSE 0)
           + GrowthInFlight(cs \ {c})

\* The calls of a client are served one after the other, those of different
\* clients concurrently: a call returns to the event loop at every statement
\* it awaits, and the statements of other calls run in between.
\* A client sends a call, a day later than the previous call of any client;
\* ctx.user is the authenticated caller.  The procedure calls
\* getTenantForUser, which awaits its first SELECT.  response is what the
\* last call to return sent back, None once a later call has arrived.
Call(c, req) ==
    /\ handlers[c] = Waiting
    /\ now < MaxTime * Day
    /\ Len(tracking) + GrowthInFlight(Clients) + Growth(req) <= MaxRecords
    /\ now' = now + Day
    /\ handlers' = [handlers EXCEPT ![c] = [pc |-> "selectTenant", input |-> req]]
    /\ response' = None
    /\ UNCHANGED <<tenants, userTenants, tenantModules, checklists, tracking>>
    /\ UNCHANGED <<reminders, request, dispatchers, mails>>

\* A client sends a call at the current time.
Arrive(c, req) ==
    /\ handlers[c] = Waiting
    /\ handlers' = [handlers EXCEPT ![c] = [pc |-> "selectTenant", input |-> req]]
    /\ response' = None
    /\ UNCHANGED <<tenants, userTenants, tenantModules, checklists, tracking, reminders, now,
                   request, dispatchers, mails>>

\* getTenantForUser in the call of client c, a step per statement it awaits.
\* SELECT FROM tenants WHERE id LIMIT 1 is answered: with no row,
\* getTenantForUser returns null and the procedure throws; else the SELECT of
\* the user's row is awaited
selectTenant(c) ==
    /\ handlers[c].pc = "selectTenant"
    /\ LET input == handlers[c].input
           result == tenantResult(input.tenantId)
       IN  IF Len(result) = 0
           THEN /\ response' = Threw(input.op, "Unauthorized")
                /\ handlers' = [handlers EXCEPT ![c] = Waiting]
           ELSE /\ handlers' = [handlers EXCEPT ![c] =
                      [pc |-> "selectUserTenant", input |-> input, tenant |-> result[1]]]
                /\ UNCHANGED response
    /\ UNCHANGED <<tenants, userTenants, tenantModules, checklists, tracking, reminders, now,
                   request, dispatchers, mails>>

\* SELECT FROM user_tenants WHERE userId AND tenantId LIMIT 1 is answered:
\* with no row, getTenantForUser returns null and the procedure throws; else
\* the SELECT of the enabled modules is awaited
selectUserTenant(c) ==
    /\ handlers[c].pc = "selectUserTenant"
    /\ LET input == handlers[c].input
           result == userTenantResult(input.user, input.tenantId)
       IN  IF Len(result) = 0
           THEN /\ response' = Threw(input.op, "Unauthorized")
                /\ handlers' = [handlers EXCEPT ![c] = Waiting]
           ELSE /\ handlers' = [handlers EXCEPT ![c] =
                      [pc |-> "selectTenantModules", input |-> input,
                       tenant |-> handlers[c].tenant, userRole |-> result[1].role]]
                /\ UNCHANGED response
    /\ UNCHANGED <<tenants, userTenants, tenantModules, checklists, tracking, reminders, now,
                   request, dispatchers, mails>>

\* what getTenantForUser returns to the call of client c when its third
\* SELECT is answered
TenantOf(c) ==
    [tenant |-> handlers[c].tenant, modules |-> modulesResult(handlers[c].input.tenantId),
     userRole |-> handlers[c].userRole]

\* the statement a query of the records awaits once the caller has access
Awaits(op) ==
    CASE op = "initialize" -> "selectChecklist"
      [] op \in {"getStats", "getUpcomingDeadlines"} -> "selectCompliance"

\* SELECT FROM tenant_modules WHERE tenantId AND enabled is answered and
\* getTenantForUser returns the tenant: initialize goes on to await the SELECT
\* of the checklist, getStats and getUpcomingDeadlines that of the records
selectTenantModules(c) ==
    /\ handlers[c].pc = "selectTenantModules"
    /\ handlers[c].input.op \in {"initialize", "getStats", "getUpcomingDeadlines"}
    /\ handlers' = [handlers EXCEPT ![c] =
          [pc |-> Awaits(handlers[c].input.op), input |-> handlers[c].input]]
    /\ UNCHANGED <<tenants, userTenants, tenantModules, checklists, tracking, reminders, now,
                   request, response, dispatchers, mails>>

\* complianceRouter.initialize from the SELECT of the checklist to the INSERT
\* of initializeTenantCompliance: the SELECT is answered, and the records are
\* built with createdAt = updatedAt = new Date().  The call returns here when
\* it throws, and when there is no record to insert.
initialize(c) ==
    /\ handlers[c].pc = "selectChecklist"
    /\ LET input == handlers[c].input
           r == initializeTenantCompliance(
                    [checklists |-> checklists, tracking |-> tracking],
                    input.tenantId, input.checklistId, now)
       IN  IF r.error # None
           THEN /\ response' = Threw("initialize", ValueOf(r.error))
                /\ handlers' = [handlers EXCEPT ![c] = Waiting]
           ELSE IF Len(r.complianceRecords) = 0
           THEN /\ response' = Ok("initialize")
                /\ handlers' = [handlers EXCEPT ![c] = Waiting]
           ELSE /\ handlers' = [handlers EXCEPT ![c] =
                      [pc |-> "insert", input |-> input,
                       complianceRecords |-> r.complianceRecords]]
                /\ UNCHANGED response
    /\ UNCHANGED <<tenants, userTenants, tenantModules, checklists, tracking, now>>
    /\ UNCHANGED <<reminders, request, dispatchers, mails>>

\* the INSERT of the records built lands, and the call returns
initializeInsert(c) ==
    /\ handlers[c].pc = "insert"
    /\ tracking' = InsertRecords(tracking, handlers[c].complianceRecords)
    /\ response' = Ok("initialize")
    /\ handlers' = [handlers EXCEPT ![c] = Waiting]
    /\ UNCHANGED <<tenants, userTenants, tenantModules, checklists, now>>
    /\ UNCHANGED <<reminders, request, dispatchers, mails>>

\* complianceRouter.updateStatus from the last SELECT of getTenantForUser to
\* the UPDATE of updateComplianceStatus: the SELECT is answered, the caller
\* has access, and updateData is built with updatedAt (and completedAt) =
\* new Date()
updateStatus(c) ==
    /\ handlers[c].pc = "selectTenantModules"
    /\ handlers[c].input.op = "updateStatus"
    /\ LET input == handlers[c].input IN
       handlers' = [handlers EXCEPT ![c] =
           [pc |-> "update", input |-> input,
            update |-> updateComplianceStatus(input.complianceId, input.status,
                           input.user, input.notes, input.attachments, now)]]
    /\ UNCHANGED response
    /\ UNCHANGED <<tenants, userTenants, tenantModules, checklists, tracking, now>>
    /\ UNCHANGED <<reminders, request, dispatchers, mails>>

\* the UPDATE lands, and the call returns { success: true }
updateStatusUpdate(c) ==
    /\ handlers[c].pc = "update"
    /\ tracking' = SetWhereId(tracking, handlers[c].update.complianceId,
                              handlers[c].update.updateData)
    /\ response' = Ok("updateStatus")
    /\ handlers' = [handlers EXCEPT ![c] = Waiting]
    /\ UNCHANGED <<tenants, userTenants, tenantModules, checklists, now>>
    /\ UNCHANGED <<reminders, request, dispatchers, mails>>

\* tenant_compliance after a call of initializeTenantCompliance at time t
\* during which no other statement runs
Initialized(db, tenantId, checklistId, t) ==
    InsertRecords(db.tracking,
        initializeTenantCompliance(db, tenantId, checklistId, t).complianceRecords)

\* The database after the documented onboarding at time 0: U1 and U2 have
\* each created a tenant (tenantRouter.create), one checklist template d has
\* been seeded, and tenant 1 has initialized its tracking against it.
Onboarded(d) ==
    LET empty == [tenants |-> <<>>, userTenants |-> <<>>, tenantModules |-> <<>>]
        first == createTenant(empty,
                     [name |-> <<"A">>, slug |-> generateSlug(<<"A">>),
                      ownerId |-> "U1", businessType |-> "photographer",
                      subscriptionTier |-> None], 0)
        t  == createTenant(first,
                     [name |-> <<"B">>, slug |-> generateSlug(<<"B">>),
                      ownerId |-> "U2", businessType |-> "consultant",
                      subscriptionTier |-> Some("starter")], 0)
        cl == upsertComplianceChecklist(<<>>, [sections |-> d, isActive |-> None])
        tr == Initialized([checklists |-> cl, tracking |-> <<>>], 1, 1, 0)
    IN  [tenants |-> t.tenants, userTenants |-> t.userTenants,
         tenantModules |-> t.tenantModules, checklists |-> cl, tracking |-> tr]

Init ==
    /\ \E d \in TemplateDefs :
        /\ tenants = Onboarded(d).tenants
        /\ userTenants = Onboarded(d).userTenants
        /\ tenantModules = Onboarded(d).tenantModules
        /\ checklists = Onboarded(d).checklists
        /\ tracking = Onboarded(d).tracking
    /\ reminders = <<>>
    /\ now = 0
    /\ request = None
    /\ response = None
    /\ dispatchers = [d \in Dispatchers |-> Idle]
    /\ mails = <<>>
    /\ handlers = NoHandlers

\* What the clients send: c1 any of the calls above; c2, whose calls are
\* served while those of c1 are, the calls of the two owners that write the
\* first record and initialize the second tenant.
ConcurrentRequests ==
    {req \in UpdateStatusRequests :
        /\ req.user = "U1" /\ req.tenantId = 1 /\ req.complianceId = 1
        /\ req.status \in {"completed", "in_progress"}
        /\ req.attachments = None
        /\ req.notes \in {None, Some("n1")}}
      \cup {req \in InitializeRequests :
                req.user = "U2" /\ req.tenantId = 2 /\ req.checklistId = 1}
RequestsOf(c) ==
    IF c = "c1" THEN InitializeRequests \cup UpdateStatusRequests ELSE ConcurrentRequests

Next ==
    \E c \in Clients :
        \/ \E req \in RequestsOf(c) : Call(c, req)
        \/ selectTenant(c)
        \/ selectUserTenant(c)
        \/ selectTenantModules(c)
        \/ initialize(c)
        \/ initializeInsert(c)
        \/ updateStatus(c)
        \/ updateStatusUpdate(c)

Spec == Init /\ [][Next]_vars

\* ------------------------------------------------------- reminder schedule
\* time passes, half a day at a time
Tick ==
    /\ now < MaxTime
    /\ now' = now + 1
    /\ UNCHANGED <<tenants, userTenants, tenantModules, checklists, tracking, reminders,
                   request, response, dispatchers, mails, handlers>>

\* Inputs of complianceRouter.scheduleReminder: a reminder of any of the
\* three types for the first record, scheduled for a time that the clock
\* passes.  The calls of c1 are by the owner of the first tenant, an e-mail
\* for either time and a notification or an sms for the earlier one, and by
\* a user with no role in the tenant named; those of c2, in flight beside
\* them, by the owner of the second tenant, an e-mail for the earlier time.
ScheduleTimes == {0, 2}
ReminderTypes == {"email", "notification", "sms"}
ScheduleReminderRequests ==
    [op : {"scheduleReminder"}, user : Users, tenantId : TenantIds, complianceId : {1},
     reminderType : ReminderTypes, scheduledFor : ScheduleTimes, message : {"due"},
     metadata : {None}]
SchedulesOf(c) ==
    {req \in ScheduleReminderRequests :
        IF c = "c1"
        THEN \/ req.user = "U1" /\ req.tenantId = 1
                /\ (req.reminderType = "email" \/ req.scheduledFor = 0)
             \/ req.user = "U2" /\ req.tenantId = 1
                /\ req.reminderType = "email" /\ req.scheduledFor = 0
        ELSE req.user = "U2" /\ req.tenantId = 2
                /\ req.reminderType = "email" /\ req.scheduledFor = 0}

\* the call arrives (the table holds MaxReminders)
schedule(c, req) ==
    /\ Len(reminders) + Cardinality({e \in Clients : handlers[e] # Waiting}) < MaxReminders
    /\ Arrive(c, req)

\* complianceRouter.scheduleReminder from the last SELECT of getTenantForUser
\* to the INSERT of scheduleReminder: the SELECT is answered, the caller has
\* access, and the row is built with createdAt = new Date()
scheduleReminderProc(c) ==
    /\ handlers[c].pc = "selectTenantModules"
    /\ handlers[c].input.op = "scheduleReminder"
    /\ LET input == handlers[c].input IN
       handlers' = [handlers EXCEPT ![c] =
           [pc |-> "insertReminder", input |-> input,
            values |-> scheduleReminder(input.tenantId, input.complianceId,
                           input.reminderType, input.scheduledFor, input.message,
                           input.metadata, now)]]
    /\ UNCHANGED <<tenants, userTenants, tenantModules, checklists, tracking, reminders, now,
                   request, response, dispatchers, mails>>

\* the INSERT lands, and the call returns { reminderId }
scheduleInsert(c) ==
    /\ handlers[c].pc = "insertReminder"
    /\ handlers[c].input.op = "scheduleReminder"
    /\ reminders' = InsertReminder(reminders, handlers[c].values)
    /\ response' = Some([op |-> "scheduleReminder", error |-> None,
                         value |-> Len(reminders) + 1])
    /\ handlers' = [handlers EXCEPT ![c] = Waiting]
    /\ UNCHANGED <<tenants, userTenants, tenantModules, checklists, tracking, now,
                   request, dispatchers, mails>>

\* The reminders of the onboarded tenants: scheduled by calls, polled and
\* marked by the dispatchers as time passes.
ReminderInit ==
    /\ tenants = Onboarded(TplA).tenants
    /\ userTenants = Onboarded(TplA).userTenants
    /\ tenantModules = Onboarded(TplA).tenantModules
    /\ checklists = Onboarded(TplA).checklists
    /\ tracking = Onboarded(TplA).tracking
    /\ reminders = <<>>
    /\ now = 0
    /\ request = None
    /\ response = None
    /\ dispatchers = [d \in Dispatchers |-> Idle]
    /\ mails = <<>>
    /\ handlers = NoHandlers

\* two dispatchers run the job side by side, and nothing fails
ConcurrentNext ==
    \/ \E c \in Clients :
          \/ \E req \in SchedulesOf(c) : schedule(c, req)
          \/ selectTenant(c)
          \/ selectUserTenant(c)
          \/ scheduleReminderProc(c)
          \/ scheduleInsert(c)
    \/ Tick
    \/ \E d \in Dispatchers : start(d) \/ poll(d) \/ send(d) \/ mark(d) \/ finish(d)

ConcurrentSpec == ReminderInit /\ [][ConcurrentNext]_vars

\* one dispatcher runs the job, sendEmail and the UPDATE of markReminderSent
\* may fail and the process may die
FailureNext ==
    \/ \E req \in SchedulesOf("c1") : schedule("c1", req)
    \/ selectTenant("c1")
    \/ selectUserTenant("c1")
    \/ scheduleReminderProc("c1")
    \/ scheduleInsert("c1")
    \/ Tick
    \/ start("D1") \/ poll("D1") \/ send("D1") \/ sendFails("D1")
    \/ mark("D1") \/ markFails("D1") \/ finish("D1")
    \/ crash("D1")

FailureSpec == ReminderInit /\ [][FailureNext]_vars

\* ------------------------------------------------------ quarterly reminders
\* the times at which the quarterly routine is called: the first of March
\* 2025, and around the deadlines and the turn of the year
QuarterlyInstants ==
    { MakeDate(2025, 2, 1),
      MakeDate(2025, 3, 14) + 1, MakeDate(2025, 3, 15), MakeDate(2025, 3, 15) + 1,
      MakeDate(2025, 5, 15),
      MakeDate(2025, 8, 15) + 1,
      MakeDate(2025, 11, 31) + 1, MakeDate(2026, 0, 1),
      MakeDate(2026, 0, 15) }

\* the clock moves on to a later one of these times
Advance(t) ==
    /\ t > now
    /\ now' = t
    /\ UNCHANGED <<tenants, userTenants, tenantModules, checklists, tracking, reminders,
                   request, response, dispatchers, mails, handlers>>

\* inputs of scheduleQuarterlyTaxReminders: an owner for records of its
\* tenant, and a user for a tenant it has no role in
QuarterlyRequests ==
    { [op |-> "scheduleQuarterlyTaxReminders", user |-> "U1", tenantId |-> 1, complianceId |-> 1],
      [op |-> "scheduleQuarterlyTaxReminders", user |-> "U1", tenantId |-> 1, complianceId |-> 2],
      [op |-> "scheduleQuarterlyTaxReminders", user |-> "U2", tenantId |-> 2, complianceId |-> 3],
      [op |-> "scheduleQuarterlyTaxReminders", user |-> "U2", tenantId |-> 1, complianceId |-> 1] }

\* a call arrives at the current time
Receive(req) ==
    /\ request = None
    /\ request' = Some(req)
    /\ response' = None
    /\ UNCHANGED <<tenants, userTenants, tenantModules, checklists, tracking, reminders, now,
                   dispatchers, mails, handlers>>

\* complianceRouter.scheduleQuarterlyTaxReminders from the last SELECT of
\* getTenantForUser to the first call of scheduleReminder: the SELECT is
\* answered, the caller has access, the clock is read (the local `now`), and
\* the quarters that pass the test of the loop are each a call of
\* scheduleReminder to make.  The call returns here when no quarter passes.
scheduleQuarterlyTaxRemindersProc(c) ==
    /\ handlers[c].pc = "selectTenantModules"
    /\ handlers[c].input.op = "scheduleQuarterlyTaxReminders"
    /\ LET input == handlers[c].input
           calls == scheduleQuarterlyTaxReminders(input.tenantId, input.complianceId, now)
       IN  IF calls = <<>>
           THEN /\ response' = Ok("scheduleQuarterlyTaxReminders")
                /\ handlers' = [handlers EXCEPT ![c] = Waiting]
           ELSE /\ UNCHANGED response
                /\ handlers' = [handlers EXCEPT ![c] =
                      [pc |-> "scheduleReminder", input |-> input, now |-> now,
                       calls |-> calls]]
    /\ UNCHANGED <<tenants, userTenants, tenantModules, checklists, tracking, reminders, now,
                   request, dispatchers, mails>>

\* the next call of scheduleReminder up to its INSERT: the row built with
\* createdAt = new Date()
scheduleReminderValues(c) ==
    /\ handlers[c].pc = "scheduleReminder"
    /\ handlers' = [handlers EXCEPT ![c] =
          [pc |-> "insertReminder", input |-> handlers[c].input, now |-> handlers[c].now,
           calls |-> Tail(handlers[c].calls),
           values |-> LET call == Head(handlers[c].calls) IN
                      scheduleReminder(call.tenantId, call.complianceId, call.reminderType,
                                       call.scheduledFor, call.message, call.metadata, now)]]
    /\ UNCHANGED <<tenants, userTenants, tenantModules, checklists, tracking, reminders, now,
                   request, response, dispatchers, mails>>

\* the INSERT lands; the loop goes on to the next quarter that passes, and
\* the call returns { success: true } when there is none
scheduleReminderInsert(c) ==
    /\ handlers[c].pc = "insertReminder"
    /\ reminders' = InsertReminder(reminders, handlers[c].values)
    /\ IF handlers[c].calls = <<>>
       THEN /\ response' = Ok("scheduleQuarterlyTaxReminders")
            /\ handlers' = [handlers EXCEPT ![c] = Waiting]
       ELSE /\ UNCHANGED response
            /\ handlers' = [handlers EXCEPT ![c] =
                  [pc |-> "scheduleReminder", input |-> handlers[c].input,
                   now |-> handlers[c].now, calls |-> handlers[c].calls]]
    /\ UNCHANGED <<tenants, userTenants, tenantModules, checklists, tracking, now,
                   request, dispatchers, mails>>

\* the INSERT fails: scheduleReminder throws and so does the call, and the
\* reminders inserted for the earlier quarters stay
scheduleReminderFails(c) ==
    /\ handlers[c].pc = "insertReminder"
    /\ response' = Threw("scheduleQuarterlyTaxReminders", "insert failed")
    /\ handlers' = [handlers EXCEPT ![c] = Waiting]
    /\ UNCHANGED <<tenants, userTenants, tenantModules, checklists, tracking, reminders, now,
                   request, dispatchers, mails>>

QuarterlyInit ==
    /\ tenants = Onboarded(TplA).tenants
    /\ userTenants = Onboarded(TplA).userTenants
    /\ tenantModules = Onboarded(TplA).tenantModules
    /\ checklists = Onboarded(TplA).checklists
    /\ tracking = Onboarded(TplA).tracking
    /\ reminders = <<>>
    /\ now = MakeDate(2025, 2, 1)
    /\ request = None
    /\ response = None
    /\ dispatchers = [d \in Dispatchers |-> Idle]
    /\ mails = <<>>
    /\ handlers = NoHandlers

QuarterlyNext ==
    \/ \E t \in QuarterlyInstants : Advance(t)
    \/ \E input \in QuarterlyRequests :
          Len(reminders) < MaxReminders /\ Arrive("c1", input)
    \/ selectTenant("c1")
    \/ selectUserTenant("c1")
    \/ scheduleQuarterlyTaxRemindersProc("c1")
    \/ scheduleReminderValues("c1")
    \/ scheduleReminderInsert("c1")
    \/ scheduleReminderFails("c1")

QuarterlySpec == QuarterlyInit /\ [][QuarterlyNext]_vars

\* ----------------------------------------------------------------- deadlines
\* inputs of getUpcomingDeadlines: the owner of tenant 1 and a stranger to it
DaysAhead == {1, 2}
DeadlineRequests ==
    [op : {"getUpcomingDeadlines"}, user : Users, tenantId : {1}, daysAhead : DaysAhead]

\* complianceRouter.getUpcomingDeadlines from the SELECT of the records: it
\* is answered, the clock is read, and the call returns the deadlines
getUpcomingDeadlinesProc(c) ==
    /\ handlers[c].pc = "selectCompliance"
    /\ handlers[c].input.op = "getUpcomingDeadlines"
    /\ LET input == handlers[c].input IN
       response' = Some([op |-> "getUpcomingDeadlines", error |-> None,
                         value |-> getUpcomingDeadlines(input.tenantId, input.daysAhead)])
    /\ handlers' = [handlers EXCEPT ![c] = Waiting]
    /\ UNCHANGED <<tenants, userTenants, tenantModules, checklists, tracking, reminders, now,
                   request, dispatchers, mails>>

\* inputs of getStats: the owner of tenant 1, with and without a checklist
\* and with the empty string for one, and for a tenant it has no role in
StatsRequests ==
    { [op |-> "getStats", user |-> "U1", tenantId |-> 1, checklistId |-> None],
      [op |-> "getStats", user |-> "U1", tenantId |-> 1, checklistId |-> Some(1)],
      [op |-> "getStats", user |-> "U1", tenantId |-> 1, checklistId |-> Some(EmptyString)],
      [op |-> "getStats", user |-> "U1", tenantId |-> 2, checklistId |-> None] }

\* complianceRouter.getStats from the SELECT of the records: it is answered,
\* the clock is read, and the call returns the statistics
getStatsProc(c) ==
    /\ handlers[c].pc = "selectCompliance"
    /\ handlers[c].input.op = "getStats"
    /\ LET input == handlers[c].input IN
       response' = Some([op |-> "getStats", error |-> None,
                         value |-> getComplianceStats(input.tenantId, input.checklistId)])
    /\ handlers' = [handlers EXCEPT ![c] = Waiting]
    /\ UNCHANGED <<tenants, userTenants, tenantModules, checklists, tracking, reminders, now,
                   request, dispatchers, mails>>

\* updateComplianceStatus by U1 at time t on the k-th row of a table, for
\* each k whose status in `statuses` is not not_started
RECURSIVE Updated(_, _, _)
Updated(table, statuses, t) ==
    IF statuses = <<>> THEN table
    ELSE LET k == Len(statuses)
             rest == Updated(table, SubSeq(statuses, 1, k - 1), t)
         IN  IF statuses[k] = "not_started" THEN rest
             ELSE SetWhereId(rest, k, UpdateData(statuses[k], "U1", None, None, t))

\* Both tenants track the template TplD since time 0, and the rows of tenant
\* 1 have been brought to any statuses.
DeadlineInit ==
    /\ tenants = Onboarded(TplD).tenants
    /\ userTenants = Onboarded(TplD).userTenants
    /\ tenantModules = Onboarded(TplD).tenantModules
    /\ checklists = Onboarded(TplD).checklists
    /\ \E statuses \in [1..5 -> Statuses] :
         tracking = Updated(
             Initialized([checklists |-> Onboarded(TplD).checklists,
                          tracking |-> Onboarded(TplD).tracking], 2, 1, 0),
             statuses, 0)
    /\ reminders = <<>>
    /\ now = 0
    /\ request = None
    /\ response = None
    /\ dispatchers = [d \in Dispatchers |-> Idle]
    /\ mails = <<>>
    /\ handlers = NoHandlers

DeadlineNext ==
    \/ Tick
    \/ \E req \in DeadlineRequests : Arrive("c1", req)
    \/ \E req \in StatsRequests : Arrive("c1", req)
    \/ selectTenant("c1")
    \/ selectUserTenant("c1")
    \/ selectTenantModules("c1")
    \/ getUpcomingDeadlinesProc("c1")
    \/ getStatsProc("c1")

DeadlineSpec == DeadlineInit /\ [][DeadlineNext]_vars

\* ---------------------------------------------------------------- statistics
\* a template of n items, named in order
ItemNames ==
    <<
       "i01", "i02", "i03", "i04", "i05", "i06", "i07", "i08", "i09", "i10", "i11",
       "i12", "i13", "i14", "i15", "i16", "i17", "i18", "i19", "i20", "i21", "i22",
       "i23", "i24", "i25", "i26", "i27", "i28", "i29", "i30", "i31", "i32", "i33",
       "i34", "i35", "i36", "i37", "i38", "i39", "i40", "i41", "i42", "i43", "i44",
       "i45" >>
TplOf(n) ==
    << [id |-> "s1", items |-> [k \in 1..n |-> Item(ItemNames[k], "once", None)]] >>

\* Tenant 1 tracks a template of up to MaxItems items since time 0, and U1
\* has completed the first so many of them.
StatsInit ==
    /\ \E n \in 0..MaxItems : \E c \in 0..n :
        /\ tenants = Onboarded(TplOf(n)).tenants
        /\ userTenants = Onboarded(TplOf(n)).userTenants
        /\ tenantModules = Onboarded(TplOf(n)).tenantModules
        /\ checklists = Onboarded(TplOf(n)).checklists
        /\ tracking = Updated(Onboarded(TplOf(n)).tracking,
                               [k \in 1..c |-> "completed"], 0)
    /\ reminders = <<>>
    /\ now = 0
    /\ request = None
    /\ response = None
    /\ dispatchers = [d \in Dispatchers |-> Idle]
    /\ mails = <<>>
    /\ handlers = NoHandlers

StatsNext ==
    \/ \E req \in StatsRequests : Arrive("c1", req)
    \/ selectTenant("c1")
    \/ selectUserTenant("c1")
    \/ selectTenantModules("c1")
    \/ getStatsProc("c1")

StatsSpec == StatsInit /\ [][StatsNext]_vars

\* ------------------------------------------------- vocabulary of the claims
\* the step in which a call of client c returns, and the client of the call
\* that returns in a step
Returns(c) == handlers[c].pc # "idle" /\ handlers'[c] = Waiting
Returning == CHOOSE c \in Clients : Returns(c)
\* the call that returns in a step, and the step in which a call of
\* procedure op returns
Input == IF request # None THEN ValueOf(request) ELSE handlers[Returning].input
Served(op) ==
    \/ request # None /\ ValueOf(request).op = op /\ request' = None
    \/ request = None /\ \E c \in Clients : Returns(c) /\ handlers[c].input.op = op

\* the user has a role in the tenant
HasRole(userId, tenantId) ==
    \E i \in DOMAIN userTenants :
        /\ userTenants[i].userId = userId
        /\ userTenants[i].tenantId = tenantId
        /\ userTenants[i].role \in {"owner", "admin", "member"}

\* positions of the rows with a given id, and the template with a given id
RowsWithId(id) == {i \in DOMAIN tracking : tracking[i].id = id}
TemplatesWithId(id) == {c \in DOMAIN checklists : checklists[c].id = id}

\* <<section, position>> of every item of a template
ItemSlots(sections) ==
    UNION {{<<i, j>> : j \in DOMAIN sections[i].items} : i \in DOMAIN sections}
ItemAt(sections, sl) == sections[sl[1]].items[sl[2]]

\* number of rows of a table for (tenant, checklist, item)
RowCount(table, tenantId, checklistId, itemId) ==
    Cardinality({i \in DOMAIN table :
        /\ table[i].tenantId = tenantId
        /\ table[i].checklistId = checklistId
        /\ table[i].itemId = itemId})

\* ---------------------------------------------------------------- C1
\* C1: a call initialize(X, T) by a user with a role in X, for an existing
\* template T, appends exactly one row per item of every section of T: as
\* many rows as T has items, each for tenant X and checklist T, not_started,
\* with null completedAt / completedBy, and for every item id as many new rows
\* as T has items of that id, each carrying the item's due date or null; the
\* rows that existed are unchanged.
NewRows == (Len(tracking) + 1)..Len(tracking')
DueDateOf(item) == IF item.dueDate = None THEN None ELSE Some(NewDate(ValueOf(item.dueDate)))
InitializeAddsOneRecordPerItem ==
    [][\A c \in DOMAIN checklists :
        (/\ Served("initialize")
         /\ HasRole(Input.user, Input.tenantId)
         /\ checklists[c].id = Input.checklistId)
        => LET sections == checklists[c].sections
               slots == ItemSlots(sections)
           IN  /\ response' = Ok("initialize")
               /\ Len(tracking') = Len(tracking) + Cardinality(slots)
               /\ SubSeq(tracking', 1, Len(tracking)) = tracking
               /\ \A k \in NewRows :
                    /\ tracking'[k].tenantId = Input.tenantId
                    /\ tracking'[k].checklistId = Input.checklistId
                    /\ tracking'[k].status = "not_started"
                    /\ tracking'[k].completedAt = None
                    /\ tracking'[k].completedBy = None
                    /\ \E sl \in slots :
                         /\ tracking'[k].itemId = ItemAt(sections, sl).id
                         /\ tracking'[k].nextDueDate = DueDateOf(ItemAt(sections, sl))
               /\ \A sl \in slots :
                    Cardinality({k \in NewRows : tracking'[k].itemId = ItemAt(sections, sl).id})
                      = Cardinality({o \in slots : ItemAt(sections, o).id = ItemAt(sections, sl).id})
    ]_vars

\* C1 witness: tenant 2, whose rows only a served initialize call can have
\* added, has a row with a due date and a row without one
InitializeServedForTwoSections ==
    /\ response = Ok("initialize")
    /\ \E i, j \in DOMAIN tracking :
        /\ tracking[i].tenantId = 2 /\ tracking[i].nextDueDate # None
        /\ tracking[j].tenantId = 2 /\ tracking[j].nextDueDate = None

\* ---------------------------------------------------------------- C2
\* C2 as stated: completed + inProgress + notStarted = total for every
\* tenant and optional checklist filter.
Filters == {None, Some(EmptyString)} \cup {Some(c) : c \in ChecklistIds}
\* a checklist is named by the filter: one is given, and not as the empty string
Names(f) == f # None /\ ValueOf(f) # EmptyString
StatsSumToTotal ==
    \A x \in TenantIds, f \in Filters :
        LET st == getComplianceStats(x, f) IN
        st.completed + st.inProgress + st.notStarted = st.total

\* C2 amended: the three counts and the number of skipped rows add up to the
\* total, so the three counts alone fall short of it by the skipped rows.
SkippedRows(x, f) ==
    {i \in DOMAIN tracking :
        /\ tracking[i].tenantId = x
        /\ (Names(f) => tracking[i].checklistId = ValueOf(f))
        /\ tracking[i].status = "skipped"}
StatsSumToTotalLessSkipped ==
    \A x \in TenantIds, f \in Filters :
        LET st == getComplianceStats(x, f) IN
        st.completed + st.inProgress + st.notStarted + Cardinality(SkippedRows(x, f)) = st.total

\* C2 witness: a tenant with a skipped row beside rows of other statuses
TenantWithSkippedRow ==
    \E x \in TenantIds :
        /\ SkippedRows(x, None) # {}
        /\ getComplianceStats(x, None).total > Cardinality(SkippedRows(x, None))

\* ---------------------------------------------------------------- C3
\* C3: for every row, completedAt and completedBy are both non-null exactly
\* when the row's status is completed.
CompletionFieldsIffCompleted ==
    \A i \in DOMAIN tracking :
        (tracking[i].completedAt # None /\ tracking[i].completedBy # None)
            <=> tracking[i].status = "completed"

\* ---------------------------------------------------------------- C4
\* C4: a row of tenant_compliance changes only in a served updateStatus call
\* whose caller has a role in the tenant that owns the row.
OnlyMembersModifyRows ==
    [][\A i \in DOMAIN tracking :
        tracking'[i] # tracking[i]
            => Served("updateStatus") /\ HasRole(Input.user, tracking[i].tenantId)
    ]_vars

\* ---------------------------------------------------------------- C5
\* C5: a served updateStatus call with status completed leaves the row it
\* names completed, stamped with the caller and the time of the call, and the
\* statistics of the row's tenant then count one more completed row if the row
\* was not completed before, and as many as before if it was.
CompletedStats(x) == getComplianceStats(x, None).completed
\* the time at which the call that returns read the clock
TimeOfCall == handlers[Returning].update.updateData.updatedAt
CompletingStampsAndCounts ==
    [][(/\ Served("updateStatus")
        /\ HasRole(Input.user, Input.tenantId)
        /\ Input.status = "completed")
        => /\ response' = Ok("updateStatus")
           /\ \A i \in RowsWithId(Input.complianceId) :
                /\ tracking'[i].status = "completed"
                /\ tracking'[i].completedBy = Some(Input.user)
                /\ tracking'[i].completedAt = Some(TimeOfCall)
                /\ CompletedStats(tracking[i].tenantId)'
                     = CompletedStats(tracking[i].tenantId)
                         + (IF tracking[i].status = "completed" THEN 0 ELSE 1)
    ]_vars

\* C5 witness: a row created earlier has just been completed by U1 and
\* carries the time of that call
RowCompletedNow ==
    /\ response = Ok("updateStatus")
    /\ \E i \in DOMAIN tracking :
        /\ tracking[i].status = "completed"
        /\ tracking[i].completedAt = Some(now)
        /\ tracking[i].completedBy = Some("U1")
        /\ tracking[i].createdAt < now

\* ---------------------------------------------------------------- C6
\* C6: whatever status a row has, a served updateStatus call naming it
\* succeeds and leaves it in the status asked for.
AnyStatusFollowsAnyStatus ==
    [][(Served("updateStatus") /\ HasRole(Input.user, Input.tenantId))
        => /\ response' = Ok("updateStatus")
           /\ \A i \in RowsWithId(Input.complianceId) :
                tracking'[i].status = Input.status
    ]_vars

\* C6 witness: a row that was completed is not_started again
CompletedRowReopened ==
    /\ response = Ok("updateStatus")
    /\ \E i \in DOMAIN tracking :
        tracking[i].status = "not_started" /\ tracking[i].completedAt # None

\* ---------------------------------------------------------------- C7
\* C7: a served updateStatus call replaces the notes (attachments) of the
\* row it names by the value given, leaves them as they were when none is
\* given, and leaves every other row unchanged.
PartialUpdateOfNotesAndAttachments ==
    [][(Served("updateStatus") /\ HasRole(Input.user, Input.tenantId))
        => /\ Len(tracking') = Len(tracking)
           /\ \A i \in DOMAIN tracking :
                IF tracking[i].id = Input.complianceId
                THEN /\ tracking'[i].notes =
                          (IF Input.notes = None THEN tracking[i].notes ELSE Input.notes)
                     /\ tracking'[i].attachments =
                          (IF Input.attachments = None THEN tracking[i].attachments
                           ELSE Input.attachments)
                ELSE tracking'[i] = tracking[i]
    ]_vars

\* C7 witness: a row holds notes and attachments that only two calls, each
\* omitting the other field, can have left together
NotesKeptBesideAttachments ==
    /\ response = Ok("updateStatus")
    /\ \E i \in DOMAIN tracking :
        tracking[i].notes = Some("n1") /\ tracking[i].attachments = Some(<<"f1">>)

\* ---------------------------------------------------------------- C8
\* C8: a served updateStatus call whose complianceId matches no row fails
\* and leaves tenant_compliance unchanged.
UpdateOfMissingRowFails ==
    [][(Served("updateStatus") /\ RowsWithId(Input.complianceId) = {})
        => /\ tracking' = tracking
           /\ response' # None
           /\ ValueOf(response').error # None
    ]_vars

\* ---------------------------------------------------------------- C9
\* C9: a call initialize with a checklistId that matches no template fails
\* (for a caller with a role in the tenant: with "Checklist not found") and
\* leaves tenant_compliance as it was.
InitializeMissingTemplateFails ==
    [][(Served("initialize") /\ TemplatesWithId(Input.checklistId) = {})
        => /\ tracking' = tracking
           /\ response' # None
           /\ ValueOf(response').error # None
           /\ HasRole(Input.user, Input.tenantId)
                => response' = Threw("initialize", "Checklist not found")
    ]_vars

\* C9 witness: a call was refused because the template is missing
ChecklistNotFoundThrown == response = Threw("initialize", "Checklist not found")

\* ---------------------------------------------------------------- C10
\* C10: initialize is not idempotent: when the tenant already has a row for
\* every item of the template, a further call succeeds and adds one more row
\* per item, so that a second call leaves two rows for each
\* (tenantId, checklistId, itemId).
InitializeTwiceDuplicates ==
    [][\A c \in DOMAIN checklists :
        LET sections == checklists[c].sections
            slots == ItemSlots(sections)
            Occurrences(id) == Cardinality({o \in slots : ItemAt(sections, o).id = id})
            Rows(table, id) == RowCount(table, Input.tenantId, Input.checklistId, id)
        IN  (/\ Served("initialize")
             /\ HasRole(Input.user, Input.tenantId)
             /\ checklists[c].id = Input.checklistId
             /\ \A sl \in slots : Rows(tracking, ItemAt(sections, sl).id) >= 1)
            => /\ response' = Ok("initialize")
               /\ \A sl \in slots :
                    Rows(tracking', ItemAt(sections, sl).id)
                      = Rows(tracking, ItemAt(sections, sl).id)
                          + Occurrences(ItemAt(sections, sl).id)
    ]_vars

\* C10 witness: after a second initialize, tenant 1 has two rows for each of
\* the two items of its template
TwoRowsPerItem ==
    /\ response = Ok("initialize")
    /\ Len(tracking) = 4
    /\ \A i \in DOMAIN tracking :
         RowCount(tracking, 1, 1, tracking[i].itemId) = 2

\* --------------------------------------- vocabulary of the reminder claims
\* the steps of the reminder job in dispatcher d
Polled(d) == dispatchers[d].pc = "poll" /\ dispatchers'[d].pc = "loop"
Marked(d) == dispatchers[d].pc = "mark" /\ dispatchers'[d].pc = "loop"
Crashed(d) == dispatchers[d].pc # "idle" /\ dispatchers'[d] = Idle /\ UNCHANGED reminders

\* identifiers of a sequence of reminders, and of the reminders of the table
\* that are unsent, and unsent and scheduled before a time t
IdsOf(rs) == {rs[k].id : k \in DOMAIN rs}
UnsentIds == {reminders[i].id : i \in {j \in DOMAIN reminders : ~reminders[j].sent}}
DueIds(t) ==
    {reminders[i].id :
        i \in {j \in DOMAIN reminders : ~reminders[j].sent /\ reminders[j].scheduledFor < t}}

\* ---------------------------------------------------------------- C11
\* C11: a poll returns each unsent reminder scheduled strictly before the
\* current time (the time at which the call was made, when it read the
\* clock), of whatever tenant, once and as the table holds it, and no
\* reminder that is sent or scheduled for that time or later.
PendingAreTheUnsentPast ==
    [][\A d \in Dispatchers :
        Polled(d) =>
            LET got == dispatchers'[d].batch
                t == dispatchers[d].now
            IN
            /\ IdsOf(got) = DueIds(t)
            /\ Len(got) = Cardinality(DueIds(t))
            /\ \A k \in DOMAIN got :
                 /\ got[k].sent = FALSE
                 /\ got[k].scheduledFor < t
                 /\ \E i \in DOMAIN reminders : reminders[i] = got[k]
    ]_vars

\* C11 witness: a poll, before any delivery, has returned one tenant's past
\* reminder and not the other tenant's, which was there, is unsent and is
\* scheduled for now or later
PastReturnedFutureNot ==
    /\ mails = <<>>
    /\ handlers = NoHandlers
    /\ \E d \in Dispatchers, i, j \in DOMAIN reminders :
        /\ dispatchers[d].pc = "loop"
        /\ dispatchers[d].batch = <<reminders[i]>>
        /\ reminders[i].scheduledFor < now
        /\ reminders[j].tenantId # reminders[i].tenantId
        /\ reminders[j].createdAt < reminders[i].createdAt
        /\ ~reminders[j].sent
        /\ reminders[j].scheduledFor >= now

\* ---------------------------------------------------------------- C12
\* C12: marking a reminder that is already sent leaves its sent flag and its
\* sentAt as the first marking left them, whatever time has passed.
MarkSentIdempotent ==
    [][\A d \in Dispatchers, i \in DOMAIN reminders :
        (/\ Marked(d)
         /\ reminders[i].id = Head(dispatchers[d].batch).id
         /\ reminders[i].sent)
        => /\ reminders'[i].sent = reminders[i].sent
           /\ reminders'[i].sentAt = reminders[i].sentAt
    ]_vars

\* ---------------------------------------------------------------- C13
\* C13: a reminder enters the table unsent with null sentAt; in every state
\* a reminder has a sentAt exactly when it is sent; a sent reminder stays in
\* the table and stays sent, and no later poll returns it.
ReminderLifecycle ==
    /\ [](\A i \in DOMAIN reminders : reminders[i].sentAt # None <=> reminders[i].sent)
    /\ [][/\ Len(reminders') >= Len(reminders)
          /\ \A k \in (Len(reminders) + 1)..Len(reminders') :
               reminders'[k].sent = FALSE /\ reminders'[k].sentAt = None
          /\ \A i \in DOMAIN reminders :
               reminders[i].sent =>
                 /\ reminders'[i].sent
                 /\ reminders'[i].id = reminders[i].id
                 /\ \A d \in Dispatchers :
                      Polled(d) => reminders[i].id \notin IdsOf(dispatchers'[d].batch)
       ]_vars

\* C13 witness: a reminder was marked sent, and a poll later than that (it
\* returns a reminder created since) has passed it over although it is
\* scheduled in the past
SentReminderPassedOver ==
    \E i, j \in DOMAIN reminders :
        /\ reminders[i].sent
        /\ reminders[i].scheduledFor < now
        /\ reminders[j].createdAt > ValueOf(reminders[i].sentAt)
        /\ dispatchers["D1"] = [pc |-> "loop", batch |-> <<reminders[j]>>]

\* ---------------------------------------------------------------- C14
\* C14: nothing claims a reminder between poll and mark: a poll by one
\* dispatcher returns every reminder that another dispatcher holds (polled,
\* delivered or not), that is still unsent and that was due when the poll
\* was made, so that both deliver it.
PollReturnsWhatOthersHold ==
    [][\A d, e \in Dispatchers :
        (d # e /\ Polled(e)) =>
            \A k \in DOMAIN dispatchers[d].batch :
                (/\ dispatchers[d].batch[k].id \in UnsentIds
                 /\ dispatchers[d].batch[k].scheduledFor < dispatchers[e].now)
                    => dispatchers[d].batch[k].id \in IdsOf(dispatchers'[e].batch)
    ]_vars

\* C14 witness: with no failure anywhere, the same reminder has been handed to
\* sendEmail twice
SameReminderDeliveredTwice ==
    \E m, n \in DOMAIN mails : m < n /\ mails[m].reminder = mails[n].reminder

\* ---------------------------------------------------------------- C15
\* C15: when the dispatcher dies between sendEmail and markReminderSent, the
\* reminder it delivered is still unsent and due; and a poll returns every
\* reminder that was delivered and is still unsent, to be delivered again.
CrashBeforeMarkRedelivers ==
    [][/\ (Crashed("D1") /\ dispatchers["D1"].pc = "mark")
            => Head(dispatchers["D1"].batch).id \in DueIds(now)'
       /\ Polled("D1")
            => \A m \in DOMAIN mails :
                 mails[m].reminder \in UnsentIds
                    => mails[m].reminder \in IdsOf(dispatchers'["D1"].batch)
    ]_vars

\* C15 witness: the one dispatcher has delivered a reminder, died, polled
\* again and delivered the same reminder again
RedeliveredAfterCrash ==
    /\ Len(mails) = 2
    /\ mails[1].reminder = mails[2].reminder
    /\ dispatchers["D1"].pc = "mark"

\* ---------------------------------------------------------------- C16
\* C16: a served call scheduleQuarterlyTaxReminders(X, R) at a time t of the
\* calendar year Y appends, for each of April 15 Y, June 15 Y, September 15 Y
\* and January 15 Y+1 that is strictly later than t, exactly one reminder,
\* and none for the others; each is scheduled seven days before its
\* deadline, unsent, for tenant X and record R, and names its quarter in
\* metadata and message.  The reminders that existed are unchanged.
Years == 2025..2026
QuarterNames == {"Q1", "Q2", "Q3", "Q4"}
Deadline(q, Y) ==
    CASE q = "Q1" -> DaysFromCivil(Y, 4, 15) * Day
      [] q = "Q2" -> DaysFromCivil(Y, 6, 15) * Day
      [] q = "Q3" -> DaysFromCivil(Y, 9, 15) * Day
      [] q = "Q4" -> DaysFromCivil(Y + 1, 1, 15) * Day
\* what a reminder, made or yet to make, is for
Purpose(r, metadata) ==
    [tenantId |-> r.tenantId, complianceId |-> r.complianceId,
     scheduledFor |-> r.scheduledFor, quarter |-> metadata.quarter, named |-> r.message[2]]
\* the reminders a call in flight has yet to insert, in order
ToMake(h) ==
    IF h.pc \notin {"scheduleReminder", "insertReminder"} THEN <<>>
    ELSE (IF h.pc = "insertReminder" THEN <<Purpose(h.values, h.values.metadata)>> ELSE <<>>)
           \o [k \in DOMAIN h.calls |-> Purpose(h.calls[k], ValueOf(h.calls[k].metadata))]
\* the step of the call of client c that reads the clock, the caller having
\* been given access, and the later steps of the call
ReadsClock(c) ==
    /\ handlers[c].pc = "selectTenantModules"
    /\ handlers[c].input.op = "scheduleQuarterlyTaxReminders"
    /\ handlers'[c] # handlers[c]
Scheduling(c) == handlers[c].pc \in {"scheduleReminder", "insertReminder"}
\* the reminders of the table
Made == [k \in DOMAIN reminders |-> Purpose(reminders[k], reminders[k].metadata)]
\* the call of client c throws in this step
Throws(c) == Returns(c) /\ response' # None /\ ValueOf(response').error # None
\* C16, the call being served a statement at a time: the step that reads the clock
\* (at t) sets out one reminder to make for each deadline later than t and
\* none for the others; every later step of the call that does not throw
\* keeps the reminders made and to make together as they are, what it
\* inserts being appended unsent to reminders that stay as they are; and
\* the call returns, with success, when none is left to make.
QuarterlyRemindersForFutureDeadlines ==
    [][\A c \in Clients :
        /\ \A Y \in Years :
            (/\ ReadsClock(c)
             /\ DaysFromCivil(Y, 1, 1) * Day <= now
             /\ now < DaysFromCivil(Y + 1, 1, 1) * Day)
            => LET todo == ToMake(handlers'[c])
                   For(q) == {k \in DOMAIN todo : todo[k].quarter = q}
               IN  /\ HasRole(handlers[c].input.user, handlers[c].input.tenantId)
                   /\ Len(todo) = Cardinality({q \in QuarterNames : Deadline(q, Y) > now})
                   /\ \A q \in QuarterNames :
                        Cardinality(For(q)) = (IF Deadline(q, Y) > now THEN 1 ELSE 0)
                   /\ \A k \in DOMAIN todo :
                        /\ todo[k].quarter \in QuarterNames
                        /\ todo[k].named = todo[k].quarter
                        /\ todo[k].scheduledFor = Deadline(todo[k].quarter, Y) - 7 * Day
                        /\ todo[k].tenantId = handlers[c].input.tenantId
                        /\ todo[k].complianceId = handlers[c].input.complianceId
                   /\ reminders' = reminders
                   /\ Returns(c) <=> todo = <<>>
                   /\ Returns(c) => response' = Ok("scheduleQuarterlyTaxReminders")
        /\ (Scheduling(c) /\ ~Throws(c))
            => /\ Made' \o ToMake(handlers'[c]) = Made \o ToMake(handlers[c])
               /\ SubSeq(reminders', 1, Len(reminders)) = reminders
               /\ \A k \in (Len(reminders) + 1)..Len(reminders') :
                    reminders'[k].sent = FALSE /\ reminders'[k].sentAt = None
               /\ Returns(c) <=> ToMake(handlers'[c]) = <<>>
               /\ Returns(c) => response' = Ok("scheduleQuarterlyTaxReminders")
    ]_vars

\* C16 witness: the call of 2025-03-01 (day 20148) has left exactly four
\* reminders, for 2025-04-08, 2025-06-08, 2025-09-08 and 2026-01-08
FourRemindersOnMarchFirst ==
    /\ response = Ok("scheduleQuarterlyTaxReminders")
    /\ now = 20148 * Day
    /\ Len(reminders) = 4
    /\ [k \in 1..4 |-> reminders[k].scheduledFor]
         = <<20186 * Day, 20247 * Day, 20339 * Day, 20461 * Day>>
    /\ [k \in 1..4 |-> reminders[k].metadata.quarter] = <<"Q1", "Q2", "Q3", "Q4">>
    /\ reminders[1].message
         = <<"Reminder: ", "Q1", " estimated taxes are due on ", <<4, 15, 2025>> >>

\* --------------------------------------- vocabulary of the deadline claims
\* what the call just served returned
Returned == ValueOf(response').value
\* a row is open: neither completed nor skipped
Open(row) == row.status # "completed" /\ row.status # "skipped"
\* position of a returned row in the table
PositionOf(row) == CHOOSE i \in DOMAIN tracking : tracking[i] = row

\* ---------------------------------------------------------------- C17
\* C17: a served call getUpcomingDeadlines(X, N) returns, each once, the rows
\* of tenant X that are open, have a due date, and are due no earlier than
\* now and no later than now + N days, and no other row.
UpcomingAreTheOpenDueInWindow ==
    [][(Served("getUpcomingDeadlines") /\ HasRole(Input.user, Input.tenantId))
        => LET wanted ==
                   {i \in DOMAIN tracking :
                       /\ tracking[i].tenantId = Input.tenantId
                       /\ Open(tracking[i])
                       /\ tracking[i].nextDueDate # None
                       /\ now <= ValueOf(tracking[i].nextDueDate)
                       /\ ValueOf(tracking[i].nextDueDate) <= now + Input.daysAhead * Day}
           IN  /\ ValueOf(response').error = None
               /\ Len(Returned) = Cardinality(wanted)
               /\ {Returned[k].compliance : k \in DOMAIN Returned} = {tracking[i] : i \in wanted}
    ]_vars

\* C17 witness: at noon of day 0 the call for one day ahead has returned d3
\* alone, due at the very end of the window, and not d1, d2 and d5, which are
\* due within the window and completed or skipped, nor the other tenant's d3
OnlyOpenRowInWindowReturned ==
    /\ response # None
    /\ ValueOf(response).op = "getUpcomingDeadlines"
    /\ ValueOf(response).error = None
    /\ now = 1
    /\ tracking[1].status = "completed"
    /\ tracking[2].status = "completed"
    /\ tracking[3].status = "in_progress"
    /\ tracking[5].status = "skipped"
    /\ tracking[8].itemId = "d3" /\ tracking[8].tenantId = 2
    /\ ValueOf(response).value = <<[compliance |-> tracking[3], daysUntilDue |-> 1]>>

\* ---------------------------------------------------------------- C18
\* C18: what getUpcomingDeadlines(X, N) returns is in ascending order of
\* daysUntilDue, the least whole number of days that reaches from now to the
\* due date, which lies between 0 and N; entries with equal daysUntilDue are
\* in the order of the rows in the table.
UpcomingSortedByDaysUntilDue ==
    [][(Served("getUpcomingDeadlines") /\ HasRole(Input.user, Input.tenantId))
        => /\ \A k \in DOMAIN Returned :
                LET n == Returned[k].daysUntilDue
                    left == ValueOf(Returned[k].compliance.nextDueDate) - now
                IN  /\ n \in 0..Input.daysAhead
                    /\ n * Day >= left
                    /\ (n - 1) * Day < left
           /\ \A k, l \in DOMAIN Returned :
                k < l =>
                    /\ Returned[k].daysUntilDue <= Returned[l].daysUntilDue
                    /\ Returned[k].daysUntilDue = Returned[l].daysUntilDue
                         => PositionOf(Returned[k].compliance)
                              < PositionOf(Returned[l].compliance)
    ]_vars

\* C18 witness: at noon of day 0 the rows due that noon come first, d2 before
\* d5, then d1 (half a day left: 1) before d3 (a day left: 1)
SoonestFirstTiesInOrder ==
    /\ response # None
    /\ ValueOf(response).op = "getUpcomingDeadlines"
    /\ ValueOf(response).error = None
    /\ now = 1
    /\ ValueOf(response).value =
         << [compliance |-> tracking[2], daysUntilDue |-> 0],
            [compliance |-> tracking[5], daysUntilDue |-> 0],
            [compliance |-> tracking[1], daysUntilDue |-> 1],
            [compliance |-> tracking[3], daysUntilDue |-> 1] >>

\* ---------------------------------------------------------------- C19
\* C19: a served call getStats(X, filter) reports as overdue the number of
\* the rows it counts that are open and have a due date strictly before now;
\* and no row that getUpcomingDeadlines returns at that time is one of them.
OverdueRows(x, f) ==
    {i \in DOMAIN tracking :
        /\ tracking[i].tenantId = x
        /\ (Names(f) => tracking[i].checklistId = ValueOf(f))
        /\ tracking[i].nextDueDate # None
        /\ ValueOf(tracking[i].nextDueDate) < now
        /\ Open(tracking[i])}
OverdueCountsOpenPastDue ==
    [][(Served("getStats") /\ HasRole(Input.user, Input.tenantId))
        => /\ ValueOf(response').error = None
           /\ Returned.overdue = Cardinality(OverdueRows(Input.tenantId, Input.checklistId))
           /\ \A N \in DaysAhead :
                LET upcoming == getUpcomingDeadlines(Input.tenantId, N) IN
                \A k \in DOMAIN upcoming :
                    PositionOf(upcoming[k].compliance)
                        \notin OverdueRows(Input.tenantId, Input.checklistId)
    ]_vars

\* C19 witness: on day 1 the statistics report one overdue row, d5, while d2,
\* as long past due, is completed and d1, open, is due at that very time
OneOverdueBesideCompletedAndDueNow ==
    /\ response # None
    /\ ValueOf(response).op = "getStats"
    /\ ValueOf(response).error = None
    /\ ValueOf(response).value.overdue = 1
    /\ ValueOf(response).value.total = 5
    /\ now = Day
    /\ tracking[2].status = "completed"
    /\ tracking[5].status = "in_progress"
    /\ tracking[1].status = "not_started"
    /\ tracking[3].status = "not_started"

\* ---------------------------------------------------------------- C20
\* C20: the completionRate a served call getStats reports is a whole number
\* from 0 to 100; it is 0 when total is 0, and otherwise the whole number
\* nearest to completed / total x 100, the upper one when two are equally
\* near.
CompletionRateRoundsHalfUp ==
    [][(Served("getStats") /\ HasRole(Input.user, Input.tenantId))
        => /\ ValueOf(response').error = None
           /\ Returned.completionRate \in 0..100
           /\ Returned.total = 0 => Returned.completionRate = 0
           /\ Returned.total > 0 =>
                /\ 2 * Returned.total * Returned.completionRate
                     <= 200 * Returned.completed + Returned.total
                /\ 200 * Returned.completed + Returned.total
                     < 2 * Returned.total * (Returned.completionRate + 1)
    ]_vars

\* ------------------------------------------------------ next due date
\* Date.prototype.getMonth and getDate (server time zone UTC)
getMonth(t) == CivilFromDays(t \div Day)[2] - 1
getDate(t) == CivilFromDays(t \div Day)[3]
\* Date.prototype.setMonth(monthIndex) and setFullYear(year): the day of the
\* month and the time of day are kept; a month index past December is
\* carried into the year, and a day the month does not have is carried into
\* the month after it
setMonth(t, monthIndex) ==
    MakeDate(getFullYear(t) + monthIndex \div 12, monthIndex % 12, getDate(t)) + (t % Day)
setFullYear(t, year) == MakeDate(year, getMonth(t), getDate(t)) + (t % Day)

Frequencies == {"once", "monthly", "quarterly", "annually"}

\* calculateNextDueDate(frequency, lastDueDate) called at time t; lastDueDate
\* is None when the argument is absent
calculateNextDueDate(frequency, lastDueDate, t) ==
    IF frequency = "once"
    THEN None
    ELSE LET baseDate == IF lastDueDate # None THEN ValueOf(lastDueDate) ELSE t IN
         CASE frequency = "monthly" -> Some(setMonth(baseDate, getMonth(baseDate) + 1))
           [] frequency = "quarterly" -> Some(setMonth(baseDate, getMonth(baseDate) + 3))
           [] frequency = "annually" -> Some(setFullYear(baseDate, getFullYear(baseDate) + 1))

\* The dates the function is called with: the middle and the last days of
\* every month of a common and a leap year, at midnight and at noon.
DueDates ==
    { MakeDate(c[1], c[2], c[3]) + h :
        c \in { c \in {2023, 2024} \X (0..11) \X {15, 28, 29, 30, 31} :
                    getDate(MakeDate(c[1], c[2], c[3])) = c[3] },
        h \in {0, Day \div 2} }
DueDateRequests ==
    [op : {"calculateNextDueDate"}, frequency : Frequencies,
     lastDueDate : {None} \cup {Some(d) : d \in DueDates}]

\* a call of calculateNextDueDate returns
calculateNextDueDateCall ==
    /\ request # None
    /\ ValueOf(request).op = "calculateNextDueDate"
    /\ response' = Some([op |-> "calculateNextDueDate", error |-> None,
                         value |-> calculateNextDueDate(ValueOf(request).frequency,
                                                        ValueOf(request).lastDueDate, now)])
    /\ request' = None
    /\ UNCHANGED <<tenants, userTenants, tenantModules, checklists, tracking, reminders, now,
                   dispatchers, mails, handlers>>

DueDateInit ==
    /\ tenants = <<>>
    /\ userTenants = <<>>
    /\ tenantModules = <<>>
    /\ checklists = <<>>
    /\ tracking = <<>>
    /\ reminders = <<>>
    /\ now \in {MakeDate(2024, 0, 31), MakeDate(2024, 5, 15) + Day \div 2}
    /\ request = None
    /\ response = None
    /\ dispatchers = [d \in Dispatchers |-> Idle]
    /\ mails = <<>>
    /\ handlers = NoHandlers

DueDateNext ==
    \/ \E req \in DueDateRequests : Receive(req)
    \/ calculateNextDueDateCall

DueDateSpec == DueDateInit /\ [][DueDateNext]_vars

\* ---------------------------------------------------------------- C21
\* the months a frequency adds, and the date the recurrence starts from
MonthsOf(frequency) ==
    CASE frequency = "monthly" -> 1 [] frequency = "quarterly" -> 3 [] frequency = "annually" -> 12
BaseDate == IF Input.lastDueDate # None THEN ValueOf(Input.lastDueDate) ELSE now
\* C21: calculateNextDueDate returns null for frequency once whatever the
\* last due date; for monthly, quarterly and annually it returns a date in
\* the calendar month 1, 3 and 12 months after the month of the date D it
\* starts from, at D's time of day, on D's day of the month when that month
\* has it and on a day of that month when it has not.
NextDueDateInTargetMonth ==
    [][Served("calculateNextDueDate")
        => /\ ValueOf(response').error = None
           /\ Input.frequency = "once" => Returned = None
           /\ Input.frequency # "once" =>
                LET target == getFullYear(BaseDate) * 12 + getMonth(BaseDate)
                                + MonthsOf(Input.frequency)
                    next == ValueOf(Returned)
                    sameDay == MakeDate(target \div 12, target % 12, getDate(BaseDate))
                IN  /\ Returned # None
                    /\ getFullYear(next) * 12 + getMonth(next) = target
                    /\ next % Day = BaseDate % Day
                    /\ getMonth(sameDay) = target % 12 => getDate(next) = getDate(BaseDate)
    ]_vars

\* ------------------------------------------------------ template upsert
MaxTemplates == 3   \* templates upserted in a run
\* templates in which two items share an id: in one section, and across two
TplDupInSection ==
    << [id |-> "s1", items |-> << Item("a1", "once", None), Item("a1", "monthly", None) >>] >>
TplDupAcrossSections ==
    << [id |-> "s1", items |-> << Item("a1", "once", None) >>],
       [id |-> "s2", items |-> << Item("a2", "annually", None), Item("a1", "quarterly", None) >>] >>
UpsertRequests ==
    [op : {"upsertTemplate"},
     sections : {TplA, TplEmpty, TplD, TplDupInSection, TplDupAcrossSections},
     isActive : {None, Some(FALSE)}]

\* a call of upsertComplianceChecklist returns the id of the inserted template
upsertComplianceChecklistCall ==
    /\ request # None
    /\ ValueOf(request).op = "upsertTemplate"
    /\ checklists' = upsertComplianceChecklist(checklists,
                         [sections |-> ValueOf(request).sections,
                          isActive |-> ValueOf(request).isActive])
    /\ response' = Some([op |-> "upsertTemplate", error |-> None,
                         value |-> Len(checklists) + 1])
    /\ request' = None
    /\ UNCHANGED <<tenants, userTenants, tenantModules, tracking, reminders, now,
                   dispatchers, mails, handlers>>

TemplateInit ==
    /\ tenants = <<>>
    /\ userTenants = <<>>
    /\ tenantModules = <<>>
    /\ checklists = <<>>
    /\ tracking = <<>>
    /\ reminders = <<>>
    /\ now = 0
    /\ request = None
    /\ response = None
    /\ dispatchers = [d \in Dispatchers |-> Idle]
    /\ mails = <<>>
    /\ handlers = NoHandlers

TemplateNext ==
    \/ \E req \in UpsertRequests : Len(checklists) < MaxTemplates /\ Receive(req)
    \/ upsertComplianceChecklistCall

TemplateSpec == TemplateInit /\ [][TemplateNext]_vars

\* ---------------------------------------------------------------- C22
\* two items of the template share an id
HasDuplicateItemIds(sections) ==
    \E k, l \in DOMAIN ItemsOf(sections) : k # l /\ ItemsOf(sections)[k].id = ItemsOf(sections)[l].id
\* C22: a call upsertTemplate for a template in which two items share an
\* id, in one section or in two, fails with ValidationError and leaves the
\* templates as they were.
DuplicateItemIdsRejected ==
    [][(Served("upsertTemplate") /\ HasDuplicateItemIds(Input.sections))
        => /\ ValueOf(response').error = Some("ValidationError")
           /\ checklists' = checklists
    ]_vars

\* ------------------------------------------------------ tenant procedures
\* The procedures of tenantRouter, served concurrently, one call per client
\* at a time, a step per database statement awaited.  handlers[c] holds the
\* call client c has in flight: its input, the statement it comes to next
\* (pc) and what it has read so far.
MaxTenants == 3   \* rows of tenants

\* what a call sends back to its client
Replied(c, op, error) == Some([op |-> op, error |-> error])

\* toggleTenantModule: UPDATE tenant_modules SET enabled WHERE tenantId AND
\* moduleType
toggleTenantModule(tenantId, moduleType, enabled) ==
    [i \in DOMAIN tenantModules |->
        IF tenantModules[i].tenantId = tenantId /\ tenantModules[i].moduleType = moduleType
        THEN [tenantModules[i] EXCEPT !.enabled = enabled]
        ELSE tenantModules[i]]

ToggleRequests ==
    [op : {"toggleModule"}, user : Users, tenantId : {2},
     moduleType : {"website_builder", "marketing"}, enabled : BOOLEAN]
SubscriptionRequests ==
    [op : {"updateSubscription"}, user : Users, tenantId : {2, 3},
     tier : {"free", "starter", "professional"}, status : {"active"}]
\* the names asked for: one whose slug a tenant has already, and a new one
CreateRequests ==
    [op : {"create"}, user : {"U1"}, name : {<<"A", " ", "!">>, <<"C">>},
     businessType : {"photographer"}, subscriptionTier : {Some("enterprise")}]

\* what the clients send: c1 the requests of the second tenant's owner to
\* toggle a module and to raise the tier, and the request to enable
\* marketing of the user with no role in the tenant; c2, in flight beside
\* them, the owner's request to lower the tier, and the request of the user
\* who creates the third tenant to put it on the free tier
TenantRequestsOf(c) ==
    IF c = "c1"
    THEN {req \in ToggleRequests :
             req.user = "U2" \/ (req.moduleType = "marketing" /\ req.enabled)}
           \cup {req \in SubscriptionRequests :
                    req.user = "U2" /\ req.tenantId = 2 /\ req.tier = "professional"}
    ELSE {req \in SubscriptionRequests :
             /\ req.tier = "free"
             /\ \/ req.user = "U2" /\ req.tenantId = 2
                \/ req.user = "U1" /\ req.tenantId = 3}

\* tenant.toggleModule from the last SELECT of getTenantForUser to its
\* statement: the SELECT is answered, and the role and the tier are checked
\* on what getTenantForUser has read
toggleModuleBegin(c) ==
    /\ handlers[c].pc = "selectTenantModules"
    /\ handlers[c].input.op = "toggleModule"
    /\ LET input == handlers[c].input
           tenant == TenantOf(c)
       IN  IF tenant.userRole \notin {"owner", "admin"}
           THEN /\ response' = Replied(c, "toggleModule", Some("Unauthorized"))
                /\ handlers' = [handlers EXCEPT ![c] = Waiting]
           ELSE IF /\ input.enabled
                   /\ ~canAccessModule(tenant.tenant.subscriptionTier, input.moduleType)
           THEN /\ response' = Replied(c, "toggleModule",
                                       Some("Module not available in current subscription tier"))
                /\ handlers' = [handlers EXCEPT ![c] = Waiting]
           ELSE /\ handlers' = [handlers EXCEPT ![c] =
                      [pc |-> "toggleTenantModule", input |-> input]]
                /\ UNCHANGED response
    /\ UNCHANGED <<tenants, userTenants, tenantModules, checklists, tracking, reminders, now,
                   request, dispatchers, mails>>

\* await toggleTenantModule(...); return { success: true }
toggleModuleEnd(c) ==
    /\ handlers[c].pc = "toggleTenantModule"
    /\ tenantModules' = toggleTenantModule(handlers[c].input.tenantId,
                                           handlers[c].input.moduleType,
                                           handlers[c].input.enabled)
    /\ handlers' = [handlers EXCEPT ![c] = Waiting]
    /\ response' = Replied(c, "toggleModule", None)
    /\ UNCHANGED <<tenants, userTenants, checklists, tracking, reminders, now,
                   request, dispatchers, mails>>

\* tenant.updateSubscription from the last SELECT of getTenantForUser to the
\* first statement of updateTenantSubscription: the SELECT is answered, and
\* the role is checked
updateSubscriptionBegin(c) ==
    /\ handlers[c].pc = "selectTenantModules"
    /\ handlers[c].input.op = "updateSubscription"
    /\ IF TenantOf(c).userRole \notin {"owner", "admin"}
       THEN /\ response' = Replied(c, "updateSubscription", Some("Unauthorized"))
            /\ handlers' = [handlers EXCEPT ![c] = Waiting]
       ELSE /\ handlers' = [handlers EXCEPT ![c] =
                  [pc |-> "updateTenants", input |-> handlers[c].input]]
            /\ UNCHANGED response
    /\ UNCHANGED <<tenants, userTenants, tenantModules, checklists, tracking, reminders, now,
                   request, dispatchers, mails>>

\* UPDATE tenants SET subscriptionTier, subscriptionStatus WHERE id
updateTenants(c) ==
    /\ handlers[c].pc = "updateTenants"
    /\ tenants' = [i \in DOMAIN tenants |->
                      IF tenants[i].id = handlers[c].input.tenantId
                      THEN [tenants[i] EXCEPT !.subscriptionTier = handlers[c].input.tier,
                                              !.subscriptionStatus = handlers[c].input.status]
                      ELSE tenants[i]]
    /\ handlers' = [handlers EXCEPT ![c].pc = "disableModules"]
    /\ UNCHANGED <<userTenants, tenantModules, checklists, tracking, reminders, now,
                   request, response, dispatchers, mails>>

\* UPDATE tenant_modules SET enabled = false WHERE tenantId
disableModules(c) ==
    /\ handlers[c].pc = "disableModules"
    /\ tenantModules' = [i \in DOMAIN tenantModules |->
                            IF tenantModules[i].tenantId = handlers[c].input.tenantId
                            THEN [tenantModules[i] EXCEPT !.enabled = FALSE]
                            ELSE tenantModules[i]]
    /\ handlers' = [handlers EXCEPT ![c].pc = "selectModules"]
    /\ UNCHANGED <<tenants, userTenants, checklists, tracking, reminders, now,
                   request, response, dispatchers, mails>>

\* the loop of updateTenantSubscription over what is left of allowedModules
\* (rest), up to the statement it awaits next: the UPDATE that enables the
\* next allowed module the tenant has a row for (existing), the others met
\* on the way being collected (newModules); after the loop the INSERT of the
\* modules collected, if any; else the call returns
EnableNext(input, existing, rest, newModules) ==
    IF \E k \in DOMAIN rest : rest[k] \in existing
    THEN LET k == CHOOSE i \in DOMAIN rest :
                      rest[i] \in existing /\ \A j \in 1..(i - 1) : rest[j] \notin existing
         IN  [pc |-> "enableModule", input |-> input, existing |-> existing,
              moduleType |-> rest[k],
              rest |-> SubSeq(rest, k + 1, Len(rest)),
              newModules |-> newModules \o SubSeq(rest, 1, k - 1)]
    ELSE IF newModules \o rest # <<>>
    THEN [pc |-> "insertModules", input |-> input, newModules |-> newModules \o rest]
    ELSE Waiting

\* SELECT FROM tenant_modules WHERE tenantId is answered: the module types
\* the tenant has rows for; the loop starts
selectModules(c) ==
    /\ handlers[c].pc = "selectModules"
    /\ LET input == handlers[c].input
           existing == {tenantModules[i].moduleType :
                           i \in {j \in DOMAIN tenantModules :
                                     tenantModules[j].tenantId = input.tenantId}}
           next == EnableNext(input, existing, getDefaultModules("other", input.tier), <<>>)
       IN  /\ handlers' = [handlers EXCEPT ![c] = next]
           /\ response' = IF next = Waiting
                          THEN Replied(c, "updateSubscription", None) ELSE response
    /\ UNCHANGED <<tenants, userTenants, tenantModules, checklists, tracking, reminders, now,
                   request, dispatchers, mails>>

\* UPDATE tenant_modules SET enabled = true WHERE tenantId AND moduleType
\* lands, and the loop goes on
enableModule(c) ==
    /\ handlers[c].pc = "enableModule"
    /\ tenantModules' = toggleTenantModule(handlers[c].input.tenantId,
                                           handlers[c].moduleType, TRUE)
    /\ LET next == EnableNext(handlers[c].input, handlers[c].existing, handlers[c].rest,
                              handlers[c].newModules)
       IN  /\ handlers' = [handlers EXCEPT ![c] = next]
           /\ response' = IF next = Waiting
                          THEN Replied(c, "updateSubscription", None) ELSE response
    /\ UNCHANGED <<tenants, userTenants, checklists, tracking, reminders, now,
                   request, dispatchers, mails>>

\* INSERT INTO tenant_modules the allowed modules the tenant had no row for
\* when they were selected.  (tenantId, moduleType) is UNIQUE (module_idx):
\* when the tenant has a row for one of them by now, the INSERT fails, no row
\* is inserted and the call throws; else the call returns { success: true }
insertModules(c) ==
    /\ handlers[c].pc = "insertModules"
    /\ LET input == handlers[c].input
           newModules == handlers[c].newModules
       IN  IF \E i \in DOMAIN tenantModules, k \in DOMAIN newModules :
                 /\ tenantModules[i].tenantId = input.tenantId
                 /\ tenantModules[i].moduleType = newModules[k]
           THEN /\ response' = Replied(c, "updateSubscription", Some("ER_DUP_ENTRY"))
                /\ UNCHANGED tenantModules
           ELSE /\ tenantModules' =
                     tenantModules \o
                     [k \in 1..Len(newModules) |->
                         [id |-> Len(tenantModules) + k, tenantId |-> input.tenantId,
                          moduleType |-> newModules[k], enabled |-> TRUE]]
                /\ response' = Replied(c, "updateSubscription", None)
    /\ handlers' = [handlers EXCEPT ![c] = Waiting]
    /\ UNCHANGED <<tenants, userTenants, checklists, tracking, reminders, now,
                   request, dispatchers, mails>>

\* what tenant.create passes to createTenant: the slug is made of the name
CreateTenantInput(input) ==
    [name |-> input.name, slug |-> generateSlug(input.name), ownerId |-> input.user,
     businessType |-> input.businessType, subscriptionTier |-> input.subscriptionTier]

\* what the call of createTenant in client c, made at the time it read
\* (its local `now`), writes for the tenant inserted as tenantId, the
\* tables being as they are by now
Created(c, tenantId) ==
    createTenant([tenants |-> SubSeq(tenants, 1, tenantId - 1),
                  userTenants |-> userTenants, tenantModules |-> tenantModules],
                 CreateTenantInput(handlers[c].input), handlers[c].now)

\* tenant.create arrives: the slug is made, createTenant reads the clock,
\* builds the tenant row with its trial end, and awaits INSERT INTO tenants
\* (the table holds MaxTenants rows at most)
createBegin(c, input) ==
    /\ handlers[c] = Waiting
    /\ Len(tenants) < MaxTenants
    /\ handlers' = [handlers EXCEPT ![c] =
          [pc |-> "insertTenant", input |-> input, now |-> now]]
    /\ response' = None
    /\ UNCHANGED <<tenants, userTenants, tenantModules, checklists, tracking, reminders, now,
                   request, dispatchers, mails>>

\* INSERT INTO tenants lands, the row as it was built; it fails when a
\* tenant has the slug by now: the call then throws
createInsertTenant(c) ==
    /\ handlers[c].pc = "insertTenant"
    /\ LET created == Created(c, Len(tenants) + 1) IN
       IF created.error # None
       THEN /\ response' = Replied(c, "create", created.error)
            /\ handlers' = [handlers EXCEPT ![c] = Waiting]
            /\ UNCHANGED tenants
       ELSE /\ tenants' = created.tenants
            /\ handlers' = [handlers EXCEPT ![c] =
                  [pc |-> "insertUserTenant", input |-> handlers[c].input,
                   now |-> handlers[c].now, tenantId |-> Len(tenants) + 1]]
            /\ UNCHANGED response
    /\ UNCHANGED <<userTenants, tenantModules, checklists, tracking, reminders, now,
                   request, dispatchers, mails>>

\* INSERT INTO user_tenants the owner's row; return { tenantId, slug } when
\* there is no default module to insert
createUserTenant(c) ==
    /\ handlers[c].pc = "insertUserTenant"
    /\ LET created == Created(c, handlers[c].tenantId) IN
       /\ userTenants' = created.userTenants
       /\ IF created.tenantModules = tenantModules
          THEN /\ handlers' = [handlers EXCEPT ![c] = Waiting]
               /\ response' = Replied(c, "create", None)
          ELSE /\ handlers' = [handlers EXCEPT ![c].pc = "insertModuleRecords"]
               /\ UNCHANGED response
    /\ UNCHANGED <<tenants, tenantModules, checklists, tracking, reminders, now,
                   request, dispatchers, mails>>

\* INSERT INTO tenant_modules the default modules of the business type and
\* the tier asked for.  (tenantId, moduleType) is UNIQUE (module_idx): when
\* the new tenant has a row for one of them by now, the INSERT fails, no row
\* is inserted and the call throws; else it returns { tenantId, slug }
createEnd(c) ==
    /\ handlers[c].pc = "insertModuleRecords"
    /\ LET created == Created(c, handlers[c].tenantId).tenantModules
           moduleRecords == SubSeq(created, Len(tenantModules) + 1, Len(created))
       IN  IF \E i \in DOMAIN tenantModules, k \in DOMAIN moduleRecords :
                 /\ tenantModules[i].tenantId = moduleRecords[k].tenantId
                 /\ tenantModules[i].moduleType = moduleRecords[k].moduleType
           THEN /\ response' = Replied(c, "create", Some("ER_DUP_ENTRY"))
                /\ UNCHANGED tenantModules
           ELSE /\ tenantModules' = created
                /\ response' = Replied(c, "create", None)
    /\ handlers' = [handlers EXCEPT ![c] = Waiting]
    /\ UNCHANGED <<tenants, userTenants, checklists, tracking, reminders, now,
                   request, dispatchers, mails>>

TenantInit ==
    /\ tenants = Onboarded(TplA).tenants
    /\ userTenants = Onboarded(TplA).userTenants
    /\ tenantModules = Onboarded(TplA).tenantModules
    /\ checklists = Onboarded(TplA).checklists
    /\ tracking = Onboarded(TplA).tracking
    /\ reminders = <<>>
    /\ now = 0
    /\ request = None
    /\ response = None
    /\ dispatchers = [d \in Dispatchers |-> Idle]
    /\ mails = <<>>
    /\ handlers = NoHandlers

TenantNext ==
    \/ \E c \in Clients :
        \/ \E input \in TenantRequestsOf(c) : Arrive(c, input)
        \/ selectTenant(c)
        \/ selectUserTenant(c)
        \/ toggleModuleBegin(c)
        \/ toggleModuleEnd(c)
        \/ updateSubscriptionBegin(c)
        \/ updateTenants(c)
        \/ disableModules(c)
        \/ selectModules(c)
        \/ enableModule(c)
        \/ insertModules(c)
        \/ \E input \in CreateRequests : createBegin(c, input)
        \/ createInsertTenant(c)
        \/ createUserTenant(c)
        \/ createEnd(c)
    \/ Tick

TenantSpec == TenantInit /\ [][TenantNext]_vars

\* ---------------------------------------------------------------- C23
\* client c's call of a procedure returns without an error
Succeeds(c, op) ==
    /\ handlers[c].pc # "idle"
    /\ handlers[c].input.op = op
    /\ handlers'[c] = Waiting
    /\ response' = Replied(c, op, None)
\* C23: when a call tenant.toggleModule with enabled = true returns success,
\* the tenant has an enabled tenant_modules row for the module type, whatever
\* rows it had before.
ToggleEnablesModule ==
    [][\A c \in Clients :
          (Succeeds(c, "toggleModule") /\ handlers[c].input.enabled)
            => \E i \in DOMAIN tenantModules' :
                  /\ tenantModules'[i].tenantId = handlers[c].input.tenantId
                  /\ tenantModules'[i].moduleType = handlers[c].input.moduleType
                  /\ tenantModules'[i].enabled
    ]_vars

\* ---------------------------------------------------------------- C24
\* C24: in every state the calls of tenant.create, toggleModule and
\* updateSubscription reach, however their statements interleave, every
\* enabled tenant_modules row has a module type that canAccessModule allows
\* for the current subscription tier of the row's tenant.
EnabledModulesWithinTier ==
    \A i \in DOMAIN tenantModules :
        tenantModules[i].enabled
          => \E t \in DOMAIN tenants :
                /\ tenants[t].id = tenantModules[i].tenantId
                /\ canAccessModule(tenants[t].subscriptionTier, tenantModules[i].moduleType)

\* ---------------------------------------------------------------- C25
\* the frequencies of the template items a row tracks
FrequenciesOf(row) ==
    UNION {{ItemAt(checklists[c].sections, sl).frequency :
                sl \in {s \in ItemSlots(checklists[c].sections) :
                           ItemAt(checklists[c].sections, s).id = row.itemId}} :
           c \in TemplatesWithId(row.checklistId)}
\* C25: a served updateStatus call with status completed leaves the row it
\* names, when the row tracks an item of frequency once, with nextDueDate
\* null, whether or not the item had a due date.
CompletedOnceHasNoNextDueDate ==
    [][(/\ Served("updateStatus")
        /\ HasRole(Input.user, Input.tenantId)
        /\ Input.status = "completed")
        => \A i \in RowsWithId(Input.complianceId) :
              "once" \in FrequenciesOf(tracking[i]) => tracking'[i].nextDueDate = None
    ]_vars

\* ---------------------------------------------------------------- C26
\* C26: completedAt and completedBy of a row change only in a served
\* updateStatus call that names the row with status completed, which stamps
\* them with the time of the call and its caller; a call with another status,
\* and every other step, leaves both as they were.
CompletionStampsKeptUntilCompletedAgain ==
    [][\A i \in DOMAIN tracking :
          IF /\ Served("updateStatus")
             /\ HasRole(Input.user, Input.tenantId)
             /\ tracking[i].id = Input.complianceId
             /\ Input.status = "completed"
          THEN /\ tracking'[i].completedAt = Some(TimeOfCall)
               /\ tracking'[i].completedBy = Some(Input.user)
          ELSE /\ tracking'[i].completedAt = tracking[i].completedAt
               /\ tracking'[i].completedBy = tracking[i].completedBy
    ]_vars

\* C26 witness: a row U1 completed at an earlier time has since been set to
\* in_progress and still carries the stamps of its completion
StampsOutliveCompletion ==
    /\ response = Ok("updateStatus")
    /\ \E i \in DOMAIN tracking :
        /\ tracking[i].status = "in_progress"
        /\ tracking[i].completedAt = Some(Day)
        /\ tracking[i].completedBy = Some("U1")
        /\ tracking[i].updatedAt = 2 * Day
        /\ now = 2 * Day

\* ------------------------------------------------- failing initialization
\* (mutant) the records are inserted one statement each, and the second
\* statement fails
initializeFailsMidway(c) ==
    /\ handlers[c].pc = "insert"
    /\ tracking' = InsertRecords(tracking, <<handlers[c].complianceRecords[1]>>)
    /\ response' = Threw("initialize", "insert failed")
    /\ handlers' = [handlers EXCEPT ![c] = Waiting]
    /\ UNCHANGED <<tenants, userTenants, tenantModules, checklists, now>>
    /\ UNCHANGED <<reminders, request, dispatchers, mails>>
\* complianceRouter.initialize when the one statement that inserts the records,
\* db.insert(tenantCompliance).values(complianceRecords), fails: the statement
\* inserts nothing and the call throws
initializeFails(c) ==
    /\ handlers[c].pc = "insert"
    /\ response' = Threw("initialize", "insert failed")
    /\ handlers' = [handlers EXCEPT ![c] = Waiting]
    /\ UNCHANGED <<tenants, userTenants, tenantModules, checklists, tracking, now>>
    /\ UNCHANGED <<reminders, request, dispatchers, mails>>

FaultNext ==
    \E c \in Clients :
        \/ \E req \in RequestsOf(c) : Call(c, req)
        \/ selectTenant(c)
        \/ selectUserTenant(c)
        \/ selectTenantModules(c)
        \/ initialize(c)
        \/ initializeInsert(c)
        \/ initializeFails(c)
        \/ updateStatus(c)
        \/ updateStatusUpdate(c)

FaultSpec == Init /\ [][FaultNext]_vars

\* ---------------------------------------------------------------- C27
\* the tenant has a record for some but not all items of the template
PartialSet(tenantId, checklistId) ==
    \E c \in TemplatesWithId(checklistId) :
        \E k, l \in DOMAIN ItemsOf(checklists[c].sections) :
            /\ RowCount(tracking, tenantId, checklistId, ItemsOf(checklists[c].sections)[k].id) > 0
            /\ RowCount(tracking, tenantId, checklistId, ItemsOf(checklists[c].sections)[l].id) = 0
\* the last call was initialize, and it failed
InitializeFailed ==
    /\ response # None
    /\ ValueOf(response).op = "initialize"
    /\ ValueOf(response).error # None
\* C27 (as amended): after a failed call initialize no tenant has a record
\* for some but not all items of a template: the records of all items are
\* inserted by one statement, which inserts all of them or none.
FailedInitializeLeavesAllOrNone ==
    InitializeFailed
      => \A x \in TenantIds : \A id \in ChecklistIds : ~PartialSet(x, id)

\* C27 witness: the insert of the two records of a template failed for a
\* tenant that has none of them
InsertFailedForUninitializedTenant ==
    /\ response = Threw("initialize", "insert failed")
    /\ Len(ItemsOf(checklists[1].sections)) = 2
    /\ RowCount(tracking, 2, 1, "a1") = 0
    /\ RowCount(tracking, 2, 1, "a2") = 0

\* C27 (as claimed): a failed call initialize can leave an incomplete set:
\* while a call has the records of a template of several items to insert,
\* the tenant having no record of the template, a step is possible in which
\* a call initialize fails and the tenant has a record for some but not all
\* of the template's items.
FailedInitializeCanLeavePartialSet ==
    \A c \in Clients : \A x \in TenantIds : \A id \in ChecklistIds :
        (/\ handlers[c].pc = "insert"
         /\ handlers[c].input.tenantId = x
         /\ handlers[c].input.checklistId = id
         /\ Len(handlers[c].complianceRecords) > 1
         /\ getTenantComplianceStatus(x, Some(id)) = <<>>)
          => ENABLED (FaultNext /\ InitializeFailed' /\ PartialSet(x, id)')

\* ---------------------------------------------------------------- C28
\* C28: every row of compliance_reminders names, by its complianceId, a row
\* of tenant_compliance that exists and belongs to the reminder's tenant.
RemindersNameRecordsOfTheirTenant ==
    \A r \in DOMAIN reminders :
        \E i \in DOMAIN tracking :
            /\ tracking[i].id = reminders[r].complianceId
            /\ tracking[i].tenantId = reminders[r].tenantId

\* ------------------------------------------------------ serial dispatch
\* One dispatcher runs the job again and again, sendEmail delivers and the
\* process does not die: the job is started over and over (the cron entry),
\* and every statement it awaits returns.
SerialNext ==
    \/ \E req \in SchedulesOf("c1") : schedule("c1", req)
    \/ selectTenant("c1")
    \/ selectUserTenant("c1")
    \/ scheduleReminderProc("c1")
    \/ scheduleInsert("c1")
    \/ Tick
    \/ start("D1") \/ poll("D1") \/ send("D1") \/ mark("D1") \/ finish("D1")

SerialSpec ==
    /\ ReminderInit
    /\ [][SerialNext]_vars
    /\ WF_vars(start("D1"))
    /\ WF_vars(poll("D1"))
    /\ WF_vars(send("D1"))
    /\ WF_vars(mark("D1"))
    /\ WF_vars(finish("D1"))

\* ---------------------------------------------------------------- C29
\* the number of times a reminder was handed to sendEmail
Deliveries(id) == Cardinality({m \in DOMAIN mails : mails[m].reminder = id})
DashboardParts == {"status", "stats", "upcomingDeadlines"}
DashboardRequests == [op : {"getDashboard"}, user : Users, tenantId : {1}]
\* the calls that write tenant 1's records meanwhile
DashboardWrites ==
    {req \in UpdateStatusRequests :
        /\ req.user = "U1" /\ req.tenantId = 1 /\ req.complianceId = 1
        /\ req.status \in {"completed", "not_started"}
        /\ req.notes = None /\ req.attachments = None}
      \cup {req \in InitializeRequests :
                req.user = "U1" /\ req.tenantId = 1 /\ req.checklistId = 1}

\* what one of the three queries answers at the current state
DashboardPart(part, tenantId) ==
    CASE part = "status" -> getTenantComplianceStatus(tenantId, None)
      [] part = "stats" -> getComplianceStats(tenantId, None)
      [] part = "upcomingDeadlines" -> getUpcomingDeadlines(tenantId, 30)

\* getDashboard from the last SELECT of getTenantForUser to Promise.all: the
\* SELECT is answered, the caller has access, and the three queries start
getDashboardBegin(c) ==
    /\ handlers[c].pc = "selectTenantModules"
    /\ handlers[c].input.op = "getDashboard"
    /\ handlers' = [handlers EXCEPT ![c] =
          [pc |-> "Promise.all", input |-> handlers[c].input, results |-> <<>>]]
    /\ UNCHANGED <<tenants, userTenants, tenantModules, checklists, tracking, reminders, now,
                   request, response, dispatchers, mails>>

\* one of the three queries answers; results holds <<part, answer>> of those
\* that have
getDashboardRead(c, part) ==
    /\ handlers[c].pc = "Promise.all"
    /\ \A k \in DOMAIN handlers[c].results : handlers[c].results[k][1] # part
    /\ Len(handlers[c].results) < 2
    /\ handlers' = [handlers EXCEPT ![c].results =
          Append(@, <<part, DashboardPart(part, handlers[c].input.tenantId)>>)]
    /\ UNCHANGED <<tenants, userTenants, tenantModules, checklists, tracking, reminders, now,
                   request, response, dispatchers, mails>>

\* the last of the three queries answers: return { status, stats,
\* upcomingDeadlines }
getDashboardEnd(c, part) ==
    /\ handlers[c].pc = "Promise.all"
    /\ \A k \in DOMAIN handlers[c].results : handlers[c].results[k][1] # part
    /\ Len(handlers[c].results) = 2
    /\ LET results == Append(handlers[c].results,
                             <<part, DashboardPart(part, handlers[c].input.tenantId)>>)
           Answer(p) == results[CHOOSE k \in DOMAIN results : results[k][1] = p][2]
       IN  response' = Some([op |-> "getDashboard", error |-> None,
                             value |-> [status |-> Answer("status"),
                                        stats |-> Answer("stats"),
                                        upcomingDeadlines |-> Answer("upcomingDeadlines")]])
    /\ handlers' = [handlers EXCEPT ![c] = Waiting]
    /\ UNCHANGED <<tenants, userTenants, tenantModules, checklists, tracking, reminders, now,
                   request, dispatchers, mails>>

DashboardInit ==
    /\ tenants = Onboarded(TplA).tenants
    /\ userTenants = Onboarded(TplA).userTenants
    /\ tenantModules = Onboarded(TplA).tenantModules
    /\ checklists = Onboarded(TplA).checklists
    /\ tracking = Onboarded(TplA).tracking
    /\ reminders = <<>>
    /\ now = 0
    /\ request = None
    /\ response = None
    /\ dispatchers = [d \in Dispatchers |-> Idle]
    /\ mails = <<>>
    /\ handlers = NoHandlers

DashboardNext ==
    \/ \E req \in DashboardWrites : Call("c2", req)
    \/ \E c \in Clients : selectTenant(c) \/ selectUserTenant(c)
    \/ selectTenantModules("c2")
    \/ initialize("c2")
    \/ initializeInsert("c2")
    \/ updateStatus("c2")
    \/ updateStatusUpdate("c2")
    \/ \E input \in DashboardRequests : Arrive("c1", input)
    \/ getDashboardBegin("c1")
    \/ \E part \in DashboardParts : getDashboardRead("c1", part)
    \/ \E part \in DashboardParts : getDashboardEnd("c1", part)

DashboardSpec == DashboardInit /\ [][DashboardNext]_vars

\* ---------------------------------------------------------------- C30
\* C30: what a call getDashboard returns is one snapshot: stats.total is the
\* number of records in status, stats.completed the number of those with
\* status completed, and every entry of upcomingDeadlines is a record of
\* status with the status it has there, whatever calls of updateStatus and
\* initialize are served between the dashboard's reads.
DashboardIsOneSnapshot ==
    [][(/\ handlers["c1"].pc = "Promise.all"
        /\ handlers'["c1"] = Waiting)
        => /\ Returned.stats.total = Len(Returned.status)
           /\ Returned.stats.completed =
                Cardinality({k \in DOMAIN Returned.status :
                                Returned.status[k].status = "completed"})
           /\ \A e \in DOMAIN Returned.upcomingDeadlines :
                \E k \in DOMAIN Returned.status :
                    /\ Returned.status[k].id = Returned.upcomingDeadlines[e].compliance.id
                    /\ Returned.status[k].status =
                          Returned.upcomingDeadlines[e].compliance.status
    ]_vars

====
